---------------------------- MODULE Spec2Model ----------------------------
(* B-plus: bindless texture handles, views and the Texture resource        *)
(* (src/Engine/Renderer/Textures/Texture.cpp), with the OpenGL driver      *)
(* modelled as the calls the code issues and the state they change.        *)
EXTENDS Integers, Sequences, FiniteSets, TLC

(***************************************************************************)
(* Bounds of the model.                                                    *)
(***************************************************************************)
\* Texture objects (C++ objects, not GPU storage) a run may construct.
MaxTexObjs == 2
\* TexView / ImgView objects alive at once.
MaxViews == 2
\* Operations a run performs.
MaxOps == 5
\* Stand-alone handle objects of the handle-level specification.
MaxHandles == 2
\* GL::Context objects a run may construct.
MaxContexts == 2

(***************************************************************************)
(* Values.                                                                 *)
(***************************************************************************)
\* OglPtr::...::Null(): the null GL object name.
Null == 0

TexObjs == 1..MaxTexObjs
ContextSlots == 1..MaxContexts
\* The threads of the program (each has its own singleton Context).
Threads == {"main", "worker"}
ViewSlots == 1..MaxViews
HandleSlots == 1..MaxHandles

\* Sampler<3> values: a map key with structural equality.
Samplers == { [kind |-> "Sampler", filter |-> "Linear"],
              [kind |-> "Sampler", filter |-> "Nearest"] }
\* The sampler every Texture of a run is constructed with.
DefaultSamplers == { [kind |-> "Sampler", filter |-> "Linear"] }
\* std::optional<Sampler<3>> without a value.
NoSampler == [kind |-> "nullopt"]

\* Format values: the OpenGL enumerant, and what IsCompressed() / IsInteger() say.
Formats == { [kind |-> "Format", ogl |-> "GL_RGBA8", compressed |-> FALSE, integer |-> FALSE],
             [kind |-> "Format", ogl |-> "GL_COMPRESSED_RGBA_S3TC_DXT1_EXT", compressed |-> TRUE, integer |-> FALSE],
             [kind |-> "Format", ogl |-> "GL_R32UI", compressed |-> FALSE, integer |-> TRUE] }
NoFormat == [kind |-> "Format", ogl |-> "GL_NONE", compressed |-> FALSE, integer |-> FALSE]
\* Sampler<3>::AssertFormatIsAllowed(format): an integer format cannot be
\* sampled with a filtering (linear) mode.
FormatIsAllowed(sampler, format) == ~(format.integer /\ sampler.filter = "Linear")
\* The (format, default sampler) pairs Textures are constructed with.
TextureConfigs == {c \in [format : Formats, sampler : Samplers] :
                      /\ FormatIsAllowed(c.sampler, c.format)
                      /\ (c.sampler.filter = "Nearest" <=> c.format.integer)}

\* ImgHandleData{ mipLevel, singleLayer, access } values requested by clients.
NoLayer == -1
ImgKeys == { [kind |-> "ImgHandleData", MipLevel |-> 0, SingleLayer |-> NoLayer, Access |-> "ReadOnly"],
             [kind |-> "ImgHandleData", MipLevel |-> 1, SingleLayer |-> 0, Access |-> "ReadWrite"] }

NoError == "none"
DeactivateMsg == "Deactivate() called too many times"
CompressedMipsMsg == "Can't compute mipmaps for a compressed texture!"
FormatNotAllowedMsg == "Sampler settings are not allowed for the texture's format"
InvalidFormatMsg == "OpenGL format is invalid"

VARIABLES
    textures,   \* Texture objects: lifecycle, glPtr, sampler3D, texHandles, imgHandles
    views,      \* TexView / ImgView objects: Owner, Handle (a map entry), GlPtr
    stats,      \* per Texture object: handle-creation calls and configurations requested
    handles,    \* stand-alone TexHandle / ImgHandle objects (handle-level specification)
    hstats,     \* per stand-alone handle object: Activate()/Deactivate() calls made, times the
                \* count came back to 0 (returns), residency calls issued
    gl,         \* the driver: names handed out, resident handles, deletions seen
    calls,      \* the driver calls the last operation issued, in order
    last,       \* the last operation and its arguments
    failed,     \* NoError, or the message of the BPAssert that stopped the program
                \* (RecursionMsg: of the calls that never return)
    ops,        \* operations performed so far
    contexts,   \* GL::Context objects: lifecycle, owning thread, the cached state
    current,    \* per thread: the Context GetCurrentContext() returns there, or Null
    driver,     \* per thread: the pipeline state the OpenGL driver really holds
    stale,      \* per thread: raw OpenGL calls were made since the cache was last filled
    app,        \* the App object and the position of Run()
    configFile  \* a ConfigFile object, the TOML document written from it and the
                \* ConfigFile object read back from the document

textureVars == <<textures, views, stats, handles, hstats, gl>>
contextVars == <<contexts, current, driver, stale>>
vars == <<textures, views, stats, handles, hstats, gl, calls, last, failed, ops,
          contexts, current, driver, stale, app, configFile>>

(***************************************************************************)
(* The driver. An environment g carries the driver state, the calls issued *)
(* so far by the running operation, and the failed assertion if any.       *)
(***************************************************************************)
Env(g0) == [gl |-> g0, calls |-> <<>>, err |-> NoError]

\* A call is <<function, argument>>; the argument is a bindless handle value,
\* or a texture or sampler object name n written Name(n).
Issue(g, name, arg) == [g EXCEPT !.calls = Append(@, <<name, arg>>)]
Name(n) == [name |-> n]

\* glCreateTextures(type, 1, &texPtr): a fresh texture name.
NewTexture(g) == g.gl.nextTex
glCreateTextures(g) ==
    [Issue(g, "glCreateTextures", Name(NewTexture(g)))
        EXCEPT !.gl.nextTex = @ + 1,
               !.gl.texDeletes = @ @@ (NewTexture(g) :> 0)]

\* glDeleteTextures(1, &glPtr)
glDeleteTextures(g, tex) ==
    [Issue(g, "glDeleteTextures", Name(tex))
        EXCEPT !.gl.texDeletes = [x \in DOMAIN @ |-> IF x = tex THEN @[x] + 1 ELSE @[x]]]

\* GlCreate(glCreateSamplers): a fresh sampler object name.
NewSampler(g) == g.gl.nextSampler
glCreateSamplers(g) ==
    [Issue(g, "glCreateSamplers", Name(NewSampler(g)))
        EXCEPT !.gl.nextSampler = @ + 1,
               !.gl.samplerDeletes = @ @@ (NewSampler(g) :> 0)]

\* glDeleteSamplers(1, &SamplerGlPtr)
glDeleteSamplers(g, s) ==
    [Issue(g, "glDeleteSamplers", Name(s))
        EXCEPT !.gl.samplerDeletes = [x \in DOMAIN @ |-> IF x = s THEN @[x] + 1 ELSE @[x]]]

\* glGetTextureHandleARB / glGetTextureSamplerHandleARB / glGetImageHandleARB:
\* the driver mints a bindless handle; its value is the driver's name for the
\* texture, the texture and sampler object, or the texture's image.
NoImage == [kind |-> "none"]
ViewPtr(tex, s, img) == [tex |-> tex, sampler |-> s, image |-> img]
NullView == ViewPtr(Null, Null, NoImage)
glGetTextureHandleARB(g, tex) == Issue(g, "glGetTextureHandleARB", ViewPtr(tex, Null, NoImage))
glGetTextureSamplerHandleARB(g, tex, s) ==
    Issue(g, "glGetTextureSamplerHandleARB", ViewPtr(tex, s, NoImage))
glGetImageHandleARB(g, tex, data) == Issue(g, "glGetImageHandleARB", ViewPtr(tex, Null, data))
\* The value the last call of g returned.
Returned(g) == g.calls[Len(g.calls)][2]

glMakeTextureHandleResidentARB(g, ptr) ==
    [Issue(g, "glMakeTextureHandleResidentARB", ptr) EXCEPT !.gl.resident = @ \cup {ptr}]
glMakeImageHandleResidentARB(g, ptr) ==
    [Issue(g, "glMakeImageHandleResidentARB", ptr) EXCEPT !.gl.resident = @ \cup {ptr}]
glMakeTextureHandleNonResidentARB(g, ptr) ==
    [Issue(g, "glMakeTextureHandleNonResidentARB", ptr) EXCEPT !.gl.resident = @ \ {ptr}]
glMakeImageHandleNonResidentARB(g, ptr) ==
    [Issue(g, "glMakeImageHandleNonResidentARB", ptr) EXCEPT !.gl.resident = @ \ {ptr}]

\* BPAssert(cond, msg): a failed assertion stops the program with msg.
BPAssert(g, cond, msg) == IF cond THEN g ELSE [g EXCEPT !.err = msg]

\* glGenerateTextureMipmap(glPtr.Get())
glGenerateTextureMipmap(g, tex) == Issue(g, "glGenerateTextureMipmap", Name(tex))

\* sampler3D.AssertFormatIsAllowed(format)
AssertFormatIsAllowed(g, sampler, format) ==
    BPAssert(g, FormatIsAllowed(sampler, format), FormatNotAllowedMsg)


(***************************************************************************)
(* TexHandle / ImgHandle. Every operation takes the handle object h and    *)
(* the environment g and gives back both: [h |-> ..., g |-> ...].          *)
(***************************************************************************)
\* TexHandle::TexHandle(const Texture* src)
TexHandle_ctor(g, texPtr) ==
    LET g1 == glGetTextureHandleARB(g, texPtr)
    IN [h |-> [cls |-> "TexHandle", ViewGlPtr |-> Returned(g1), SamplerGlPtr |-> Null,
               activeCount |-> 0, skipDestructor |-> FALSE],
        g |-> g1]

\* Mutant: the sampler is not validated against the texture's format.
TexHandle_ctor_sampler_unchecked(g, texPtr, format, sampler3D) ==
    LET g1 == glCreateSamplers(g)
        s  == NewSampler(g)
        g2 == glGetTextureSamplerHandleARB(g1, texPtr, s)
        g4 == Issue(g2, "Sampler::Apply", Name(s))
    IN [h |-> [cls |-> "TexHandle", ViewGlPtr |-> Returned(g2), SamplerGlPtr |-> s,
               activeCount |-> 0, skipDestructor |-> FALSE],
        g |-> g4]

\* TexHandle::TexHandle(const Texture* src, const Sampler<3>& sampler3D);
\* format is src->GetFormat(). A failed assertion ends the program inside
\* the constructor: no object comes out of it.
TexHandle_ctor_sampler(g, texPtr, format, sampler3D) ==
    LET g1 == glCreateSamplers(g)
        s  == NewSampler(g)
        g2 == glGetTextureSamplerHandleARB(g1, texPtr, s)
        g3 == AssertFormatIsAllowed(g2, sampler3D, format)
        g4 == IF g3.err = NoError THEN Issue(g3, "Sampler::Apply", Name(s)) ELSE g3
    IN [h |-> [cls |-> "TexHandle", ViewGlPtr |-> Returned(g2), SamplerGlPtr |-> s,
               activeCount |-> 0, skipDestructor |-> FALSE],
        g |-> g4]

\* ImgHandle::ImgHandle(const Texture* src, mip, singleLayer, mode)
ImgHandle_ctor(g, texPtr, data) ==
    LET g1 == glGetImageHandleARB(g, texPtr, data)
    IN [h |-> [cls |-> "ImgHandle", ViewGlPtr |-> Returned(g1),
               MipLevel |-> data.MipLevel, SingleLayer |-> data.SingleLayer, Mode |-> data.Access,
               activeCount |-> 0, skipDestructor |-> FALSE],
        g |-> g1]

\* Mutant: the residency call is issued on every activation.
TexHandle_Activate_always(h, g) ==
    LET h1 == [h EXCEPT !.activeCount = @ + 1]
    IN [h |-> h1, g |-> glMakeTextureHandleResidentARB(g, h1.ViewGlPtr)]

\* void TexHandle::Activate()
TexHandle_Activate(h, g) ==
    LET h1 == [h EXCEPT !.activeCount = @ + 1]
    IN [h |-> h1,
        g |-> IF h1.activeCount = 1 THEN glMakeTextureHandleResidentARB(g, h1.ViewGlPtr) ELSE g]

\* void ImgHandle::Activate()
ImgHandle_Activate(h, g) ==
    LET h1 == [h EXCEPT !.activeCount = @ + 1]
    IN [h |-> h1,
        g |-> IF h1.activeCount = 1 THEN glMakeImageHandleResidentARB(g, h1.ViewGlPtr) ELSE g]

\* Mutant: residency is revoked one deactivation early (activeCount <= 1).
TexHandle_Deactivate_early(h, g) ==
    LET g1 == BPAssert(g, h.activeCount > 0, DeactivateMsg)
        h1 == [h EXCEPT !.activeCount = @ - 1]
    IN IF g1.err # NoError THEN [h |-> h, g |-> g1]
       ELSE [h |-> h1,
             g |-> IF h1.activeCount <= 1
                   THEN glMakeTextureHandleNonResidentARB(g1, h1.ViewGlPtr) ELSE g1]

\* void TexHandle::Deactivate()
TexHandle_Deactivate(h, g) ==
    LET g1 == BPAssert(g, h.activeCount > 0, DeactivateMsg)
        h1 == [h EXCEPT !.activeCount = @ - 1]
    IN IF g1.err # NoError THEN [h |-> h, g |-> g1]
       ELSE [h |-> h1,
             g |-> IF h1.activeCount < 1
                   THEN glMakeTextureHandleNonResidentARB(g1, h1.ViewGlPtr) ELSE g1]

\* Mutant: no assertion guards the decrement.
ImgHandle_Deactivate_unchecked(h, g) ==
    LET h1 == [h EXCEPT !.activeCount = @ - 1]
    IN [h |-> h1,
        g |-> IF h1.activeCount < 1
              THEN glMakeImageHandleNonResidentARB(g, h1.ViewGlPtr) ELSE g]

\* void ImgHandle::Deactivate()
ImgHandle_Deactivate(h, g) ==
    LET g1 == BPAssert(g, h.activeCount > 0, DeactivateMsg)
        h1 == [h EXCEPT !.activeCount = @ - 1]
    IN IF g1.err # NoError THEN [h |-> h, g |-> g1]
       ELSE [h |-> h1,
             g |-> IF h1.activeCount < 1
                   THEN glMakeImageHandleNonResidentARB(g1, h1.ViewGlPtr) ELSE g1]

\* Mutant: an `if` where the loop should be.
TexHandle_DeactivateOnce(h, g) ==
    IF h.activeCount > 0 /\ g.err = NoError THEN TexHandle_Deactivate(h, g) ELSE [h |-> h, g |-> g]

\* while (activeCount > 0) Deactivate();
RECURSIVE TexHandle_DeactivateAll(_, _)
TexHandle_DeactivateAll(h, g) ==
    IF h.activeCount > 0 /\ g.err = NoError
    THEN LET r == TexHandle_Deactivate(h, g) IN TexHandle_DeactivateAll(r.h, r.g)
    ELSE [h |-> h, g |-> g]

RECURSIVE ImgHandle_DeactivateAll(_, _)
ImgHandle_DeactivateAll(h, g) ==
    IF h.activeCount > 0 /\ g.err = NoError
    THEN LET r == ImgHandle_Deactivate(h, g) IN ImgHandle_DeactivateAll(r.h, r.g)
    ELSE [h |-> h, g |-> g]

\* TexHandle::~TexHandle()
TexHandle_dtor(h, g) ==
    IF h.skipDestructor THEN [h |-> h, g |-> g]
    ELSE LET r == TexHandle_DeactivateAll(h, g)
         IN [h |-> r.h,
             g |-> IF r.h.SamplerGlPtr # Null
                   THEN glDeleteSamplers(r.g, r.h.SamplerGlPtr) ELSE r.g]

\* ImgHandle::~ImgHandle()
ImgHandle_dtor(h, g) ==
    IF h.skipDestructor THEN [h |-> h, g |-> g]
    ELSE ImgHandle_DeactivateAll(h, g)

\* Mutant: the source is not marked inert.
TexHandle_move_keep(src) ==
    [dst |-> [cls |-> "TexHandle", ViewGlPtr |-> src.ViewGlPtr, SamplerGlPtr |-> src.SamplerGlPtr,
              activeCount |-> src.activeCount, skipDestructor |-> src.skipDestructor],
     src |-> src]

\* TexHandle::TexHandle(TexHandle&& src): [dst |-> the new object, src |-> src afterwards]
TexHandle_move(src) ==
    [dst |-> [cls |-> "TexHandle", ViewGlPtr |-> src.ViewGlPtr, SamplerGlPtr |-> src.SamplerGlPtr,
              activeCount |-> src.activeCount, skipDestructor |-> src.skipDestructor],
     src |-> [src EXCEPT !.skipDestructor = TRUE]]

\* ImgHandle::ImgHandle(ImgHandle&& src)
ImgHandle_move(src) ==
    [dst |-> [cls |-> "ImgHandle", ViewGlPtr |-> src.ViewGlPtr,
              MipLevel |-> src.MipLevel, SingleLayer |-> src.SingleLayer, Mode |-> src.Mode,
              activeCount |-> src.activeCount, skipDestructor |-> src.skipDestructor],
     src |-> [src EXCEPT !.skipDestructor = TRUE]]

\* The handle's own class decides which member function runs.
Handle_Activate(h, g) ==
    IF h.cls = "TexHandle" THEN TexHandle_Activate(h, g) ELSE ImgHandle_Activate(h, g)
Handle_Deactivate(h, g) ==
    IF h.cls = "TexHandle" THEN TexHandle_Deactivate(h, g) ELSE ImgHandle_Deactivate(h, g)
Handle_dtor(h, g) ==
    IF h.cls = "TexHandle" THEN TexHandle_dtor(h, g) ELSE ImgHandle_dtor(h, g)
Handle_move(src) ==
    IF src.cls = "TexHandle" THEN TexHandle_move(src) ELSE ImgHandle_move(src)

(***************************************************************************)
(* Texture objects and views.                                              *)
(***************************************************************************)
EmptyMap == [k \in {} |-> Null]

\* A Texture object not constructed yet.
NoTexture == [state |-> "none", glPtr |-> Null, format |-> NoFormat, sampler3D |-> NoSampler,
              texHandles |-> EmptyMap, imgHandles |-> EmptyMap]
NoStats == [texMints |-> 0, imgMints |-> 0, texReq |-> {}, imgReq |-> {}]

\* A view object not constructed (or destroyed).
NoView == [state |-> "none", cls |-> "none", Owner |-> 0, Key |-> NoSampler, GlPtr |-> NullView]

\* A stand-alone handle object not constructed yet.
NoHandle == [state |-> "none", obj |-> [cls |-> "none", ViewGlPtr |-> NullView, SamplerGlPtr |-> Null,
                                        activeCount |-> 0, skipDestructor |-> FALSE]]
NoHStats == [acts |-> 0, deacts |-> 0, returns |-> 0, resident |-> 0, nonResident |-> 0]

NoOp == [op |-> "init", a |-> 0, b |-> 0, key |-> NoSampler]
Op(name, a, b, key) == [op |-> name, a |-> a, b |-> b, key |-> key]

\* The program runs until an assertion stops it (and the run's length is bounded).
Running == failed = NoError /\ ops < MaxOps
Live(t) == textures[t].state = "live"
\* Objects are numbered in the order they are constructed.
NextTexObj(t) == textures[t].state = "none" /\ \A u \in 1..(t - 1) : textures[u].state # "none"
NextView(v) == views[v].state = "none" /\ \A u \in 1..(v - 1) : views[u].state # "none"
\* A moved-from Texture holds the null name; clients only destroy it.
Usable(t) == Live(t) /\ textures[t].glPtr # Null

\* The handle object a view refers to (TexHandle& Handle / ImgHandle& Handle).
HandleMap(tx, cls) == IF cls = "TexView" THEN tx.texHandles ELSE tx.imgHandles
HandleOf(txs, v) == HandleMap(txs[v.Owner], v.cls)[v.Key]
WithHandle(tx, cls, key, h) ==
    IF cls = "TexView"
    THEN [tx EXCEPT !.texHandles = [k \in DOMAIN @ |-> IF k = key THEN h ELSE @[k]]]
    ELSE [tx EXCEPT !.imgHandles = [k \in DOMAIN @ |-> IF k = key THEN h ELSE @[k]]]

\* A view whose Texture is gone refers to a destroyed handle: using it is
\* outside the caller's obligations (views never outlive their Texture).
ViewUsable(v) == views[v].state = "live" /\ Live(views[v].Owner)

\* map.emplace(key, Handle(...)): the temporary is move-constructed into the
\* map's node (nothing happens if the key is present) and then destroyed.
Emplace(map, key, r) ==
    LET m == Handle_move(r.h)
        d == Handle_dtor(m.src, r.g)
    IN [map |-> IF key \in DOMAIN map THEN map ELSE map @@ (key :> m.dst),
        g |-> d.g]

\* Texture::Texture(Types, Format, nMips, const Sampler<3>&)
Texture_ctor(t, format, sampler) ==
    /\ Running
    /\ NextTexObj(t)
    /\ LET g0 == BPAssert(Env(gl), format.ogl # "GL_NONE", InvalidFormatMsg)
           g1 == IF g0.err = NoError THEN glCreateTextures(g0) ELSE g0
           g2 == IF g1.err = NoError THEN AssertFormatIsAllowed(g1, sampler, format) ELSE g1
           g == IF g2.err = NoError THEN Issue(g2, "Sampler::Apply", Name(NewTexture(g0))) ELSE g2
       IN /\ textures' = IF g.err = NoError
                         THEN [textures EXCEPT ![t] =
                                  [state |-> "live", glPtr |-> NewTexture(g0), format |-> format,
                                   sampler3D |-> sampler,
                                   texHandles |-> EmptyMap, imgHandles |-> EmptyMap]]
                         ELSE textures
          /\ gl' = g.gl
          /\ calls' = g.calls
          /\ failed' = g.err
    /\ last' = Op("Texture", t, 0, sampler)
    /\ ops' = ops + 1
    /\ UNCHANGED <<views, stats, handles, hstats, contextVars, app, configFile>>

\* Mutant: the source keeps its name for the storage.
Texture_move_copy(t, src) ==
    /\ Running
    /\ NextTexObj(t)
    /\ Live(src)
    /\ textures' = [textures EXCEPT
          ![t] = [state |-> "live", glPtr |-> textures[src].glPtr,
                  format |-> textures[src].format,
                  sampler3D |-> textures[src].sampler3D,
                  texHandles |-> EmptyMap, imgHandles |-> EmptyMap]]
    /\ calls' = <<>>
    /\ last' = Op("Texture&&", t, src, NoSampler)
    /\ ops' = ops + 1
    /\ UNCHANGED <<views, stats, handles, hstats, gl, failed, contextVars, app, configFile>>

\* Texture::Texture(Texture&& src)
Texture_move(t, src) ==
    /\ Running
    /\ NextTexObj(t)
    /\ Live(src)
    /\ textures' = [textures EXCEPT
          ![t] = [state |-> "live", glPtr |-> textures[src].glPtr,
                  format |-> textures[src].format,
                  sampler3D |-> textures[src].sampler3D,
                  texHandles |-> EmptyMap, imgHandles |-> EmptyMap],
          ![src] = [@ EXCEPT !.glPtr = Null]]
    /\ calls' = <<>>
    /\ last' = Op("Texture&&", t, src, NoSampler)
    /\ ops' = ops + 1
    /\ UNCHANGED <<views, stats, handles, hstats, gl, failed, contextVars, app, configFile>>

\* The handles of a map, destroyed one after the other in the order `order`.
RECURSIVE DestroyHandles(_, _, _)
DestroyHandles(map, order, g) ==
    IF order = <<>> THEN g
    ELSE DestroyHandles(map, Tail(order), Handle_dtor(map[Head(order)], g).g)

\* The orders in which a map's entries may be destroyed.
Orders(S) == {o \in [1..Cardinality(S) -> S] : \A i, j \in DOMAIN o : o[i] = o[j] => i = j}

\* Texture::~Texture(): the body, then the members (the two handle maps) are destroyed.
Texture_dtor(t) ==
    /\ Running
    /\ Live(t)
    /\ \E ot \in Orders(DOMAIN textures[t].texHandles),
          oi \in Orders(DOMAIN textures[t].imgHandles) :
          LET g0 == Env(gl)
              g1 == IF textures[t].glPtr # Null THEN glDeleteTextures(g0, textures[t].glPtr) ELSE g0
              g2 == DestroyHandles(textures[t].imgHandles, oi, g1)
              g3 == DestroyHandles(textures[t].texHandles, ot, g2)
          IN /\ gl' = g3.gl
             /\ calls' = g3.calls
             /\ failed' = g3.err
    /\ textures' = [textures EXCEPT ![t] = [NoTexture EXCEPT !.state = "destroyed"]]
    \* The views still referring to this Texture's handles are dead references
    \* their owner must not touch again; the object's counters go with it.
    /\ views' = [v \in ViewSlots |-> IF views[v].Owner = t THEN NoView ELSE views[v]]
    /\ stats' = [stats EXCEPT ![t] = NoStats]
    /\ last' = Op("~Texture", t, 0, NoSampler)
    /\ ops' = ops + 1
    /\ UNCHANGED <<handles, hstats, contextVars, app, configFile>>

(***************************************************************************)
(* Views.                                                                  *)
(***************************************************************************)
\* TexView::TexView(const Texture& owner, TexHandle& handle): Handle.Activate()
TexView_ctor(h, g) == TexHandle_Activate(h, g)
\* ImgView::ImgView(const Texture& owner, ImgHandle& handle)
ImgView_ctor(h, g) == ImgHandle_Activate(h, g)
\* TexView::~TexView(): Handle.Deactivate()
\* Mutant: the destructor leaves its handle alone.
TexView_dtor_forget(h, g) == [h |-> h, g |-> g]
TexView_dtor(h, g) == TexHandle_Deactivate(h, g)
\* ImgView::~ImgView()
ImgView_dtor(h, g) == ImgHandle_Deactivate(h, g)
\* TexView(const TexView& cpy) / ImgView(const ImgView& cpy): declared in
\* Texture.h; a copy is a view of cpy's handle constructed like any other.
TexView_copy(h, g) == TexView_ctor(h, g)
ImgView_copy(h, g) == ImgView_ctor(h, g)

View_ctor(cls, h, g) == IF cls = "TexView" THEN TexView_ctor(h, g) ELSE ImgView_ctor(h, g)
View_dtor(cls, h, g) == IF cls = "TexView" THEN TexView_dtor(h, g) ELSE ImgView_dtor(h, g)
View_copy(cls, h, g) == IF cls = "TexView" THEN TexView_copy(h, g) ELSE ImgView_copy(h, g)

\* &Handle != &cpy.Handle: a handle object is one entry of one Texture's map.
SameHandle(self, cpy) == self.Owner = cpy.Owner /\ self.Key = cpy.Key

\* Mutant: the current view is not destroyed before it is reconstructed.
View_assign_noRelease(txs, self, cpy, g) ==
    IF ~SameHandle(self, cpy)
    THEN LET c == View_copy(cpy.cls, HandleOf(txs, cpy), g)
         IN [txs |-> [txs EXCEPT ![cpy.Owner] = WithHandle(@, cpy.cls, cpy.Key, c.h)],
             view |-> cpy,
             g |-> c.g]
    ELSE [txs |-> txs, view |-> self,
          g |-> BPAssert(g, self.GlPtr = cpy.GlPtr, "GlPtr fields don't match up")]

\* TexView& TexView::operator=(const TexView& cpy), and ImgView's:
\* [txs |-> the Texture objects, view |-> *this, g |-> ...] afterwards.
View_assign(txs, self, cpy, g) ==
    IF ~SameHandle(self, cpy)
    THEN LET d == View_dtor(self.cls, HandleOf(txs, self), g)
             txs1 == [txs EXCEPT ![self.Owner] = WithHandle(@, self.cls, self.Key, d.h)]
         IN IF d.g.err # NoError THEN [txs |-> txs, view |-> self, g |-> d.g]
            ELSE LET c == View_copy(cpy.cls, HandleOf(txs1, cpy), d.g)
                 IN [txs |-> [txs1 EXCEPT ![cpy.Owner] = WithHandle(@, cpy.cls, cpy.Key, c.h)],
                     view |-> cpy,
                     g |-> c.g]
    ELSE [txs |-> txs, view |-> self,
          g |-> BPAssert(g, self.GlPtr = cpy.GlPtr, "GlPtr fields don't match up")]

CountCalls(cs, names) == Cardinality({i \in DOMAIN cs : cs[i][1] \in names})
TexMintCalls == {"glGetTextureHandleARB", "glGetTextureSamplerHandleARB"}
ImgMintCalls == {"glGetImageHandleARB"}
ResidentCalls == {"glMakeTextureHandleResidentARB", "glMakeImageHandleResidentARB"}
NonResidentCalls == {"glMakeTextureHandleNonResidentARB", "glMakeImageHandleNonResidentARB"}

\* auto sampler = customSampler.value_or(sampler3D);
ResolveSampler(tx, customSampler) ==
    IF customSampler # NoSampler THEN customSampler ELSE tx.sampler3D

\* Mutant: the lookup never finds the key.
Found_never(map, key) == FALSE

\* found != map.end()
Found(map, key) == key \in DOMAIN map

\* TexView Texture::GetViewFull(std::optional<Sampler<3>> customSampler) const
Texture_GetViewFull(t, customSampler, v) ==
    /\ Running
    /\ Usable(t)
    /\ NextView(v)
    /\ LET tx == textures[t]
           sampler == ResolveSampler(tx, customSampler)
           g0 == Env(gl)
           c == IF customSampler # NoSampler
                THEN TexHandle_ctor_sampler(g0, tx.glPtr, tx.format, sampler)
                ELSE TexHandle_ctor(g0, tx.glPtr)
       IN IF ~Found(tx.texHandles, sampler) /\ c.g.err # NoError
          THEN \* the program ended inside the TexHandle constructor
               /\ gl' = c.g.gl
               /\ calls' = c.g.calls
               /\ failed' = c.g.err
               /\ UNCHANGED <<textures, views, stats>>
          ELSE LET e == IF ~Found(tx.texHandles, sampler)
                        THEN Emplace(tx.texHandles, sampler, c)
                        ELSE [map |-> tx.texHandles, g |-> g0]
                   a == TexView_ctor(e.map[sampler], e.g)
               IN /\ textures' = [textures EXCEPT ![t].texHandles =
                                     [k \in DOMAIN e.map |-> IF k = sampler THEN a.h ELSE e.map[k]]]
                  /\ views' = [views EXCEPT ![v] = [state |-> "live", cls |-> "TexView", Owner |-> t,
                                                    Key |-> sampler, GlPtr |-> e.map[sampler].ViewGlPtr]]
                  /\ stats' = [stats EXCEPT ![t].texMints = @ + CountCalls(a.g.calls, TexMintCalls),
                                            ![t].texReq = @ \cup {sampler}]
                  /\ gl' = a.g.gl
                  /\ calls' = a.g.calls
                  /\ failed' = a.g.err
    /\ last' = Op("GetViewFull", t, v, customSampler)
    /\ ops' = ops + 1
    /\ UNCHANGED <<handles, hstats, contextVars, app, configFile>>

\* A default-constructed ImgHandle, as map::operator[] inserts for a missing key.
ImgHandle_default ==
    [cls |-> "ImgHandle", ViewGlPtr |-> NullView, MipLevel |-> 0, SingleLayer |-> NoLayer,
     Mode |-> "ReadOnly", activeCount |-> 0, skipDestructor |-> FALSE]

\* map[key]
Subscript(map, key) == IF key \in DOMAIN map THEN map ELSE map @@ (key :> ImgHandle_default)

\* ImgView Texture::GetViewFull(ImageAccessModes access, singleLayer, mipLevel) const.
\* As written: the lookup and the returned entry use `sampler` (no name of this
\* function; the Texture's sampler is what the text can mean), and the new
\* handle is emplaced into texHandles.
Texture_GetViewFull_Img(t, data, v) ==
    /\ Running
    /\ Usable(t)
    /\ NextView(v)
    /\ LET tx == textures[t]
           sampler == tx.sampler3D
           g0 == Env(gl)
           e == IF ~Found(tx.imgHandles, sampler)
                THEN Emplace(tx.texHandles, data, ImgHandle_ctor(g0, tx.glPtr, data))
                ELSE [map |-> tx.texHandles, g |-> g0]
           im == Subscript(tx.imgHandles, sampler)
           a == ImgView_ctor(im[sampler], e.g)
       IN /\ textures' = [textures EXCEPT
                             ![t].texHandles = e.map,
                             ![t].imgHandles = [k \in DOMAIN im |-> IF k = sampler THEN a.h ELSE im[k]]]
          /\ views' = [views EXCEPT ![v] = [state |-> "live", cls |-> "ImgView", Owner |-> t,
                                            Key |-> sampler, GlPtr |-> im[sampler].ViewGlPtr]]
          /\ stats' = [stats EXCEPT ![t].imgMints = @ + CountCalls(a.g.calls, ImgMintCalls),
                                    ![t].imgReq = @ \cup {data}]
          /\ gl' = a.g.gl
          /\ calls' = a.g.calls
          /\ failed' = a.g.err
    /\ last' = Op("GetViewFull(img)", t, v, data)
    /\ ops' = ops + 1
    /\ UNCHANGED <<handles, hstats, contextVars, app, configFile>>

\* Mutant: a compressed texture is silently skipped.
Texture_RecomputeMips_silent(t) ==
    /\ Running
    /\ Usable(t)
    /\ LET g == IF ~textures[t].format.compressed
                THEN glGenerateTextureMipmap(Env(gl), textures[t].glPtr) ELSE Env(gl)
       IN /\ gl' = g.gl
          /\ calls' = g.calls
          /\ failed' = g.err
    /\ last' = Op("RecomputeMips", t, 0, NoSampler)
    /\ ops' = ops + 1
    /\ UNCHANGED <<textures, views, stats, handles, hstats, contextVars, app, configFile>>

\* void Texture::RecomputeMips()
Texture_RecomputeMips(t) ==
    /\ Running
    /\ Usable(t)
    /\ LET g1 == BPAssert(Env(gl), ~textures[t].format.compressed, CompressedMipsMsg)
           g == IF g1.err = NoError THEN glGenerateTextureMipmap(g1, textures[t].glPtr) ELSE g1
       IN /\ gl' = g.gl
          /\ calls' = g.calls
          /\ failed' = g.err
    /\ last' = Op("RecomputeMips", t, 0, NoSampler)
    /\ ops' = ops + 1
    /\ UNCHANGED <<textures, views, stats, handles, hstats, contextVars, app, configFile>>

\* A view goes out of scope: ~TexView() / ~ImgView().
ViewDtor(v) ==
    /\ Running
    /\ ViewUsable(v)
    /\ LET self == views[v]
           d == View_dtor(self.cls, HandleOf(textures, self), Env(gl))
       IN /\ textures' = [textures EXCEPT ![self.Owner] = WithHandle(@, self.cls, self.Key, d.h)]
          /\ views' = [views EXCEPT ![v] = NoView]
          /\ gl' = d.g.gl
          /\ calls' = d.g.calls
          /\ failed' = d.g.err
    /\ last' = Op("~View", v, 0, NoSampler)
    /\ ops' = ops + 1
    /\ UNCHANGED <<stats, handles, hstats, contextVars, app, configFile>>

\* A new view copy-constructed from view w.
ViewCopy(v, w) ==
    /\ Running
    /\ NextView(v)
    /\ ViewUsable(w)
    /\ LET cpy == views[w]
           c == View_copy(cpy.cls, HandleOf(textures, cpy), Env(gl))
       IN /\ textures' = [textures EXCEPT ![cpy.Owner] = WithHandle(@, cpy.cls, cpy.Key, c.h)]
          /\ views' = [views EXCEPT ![v] = cpy]
          /\ gl' = c.g.gl
          /\ calls' = c.g.calls
          /\ failed' = c.g.err
    /\ last' = Op("View(cpy)", v, w, NoSampler)
    /\ ops' = ops + 1
    /\ UNCHANGED <<stats, handles, hstats, contextVars, app, configFile>>

\* views[v] = views[w], two views of the same class.
ViewAssign(v, w) ==
    /\ Running
    /\ ViewUsable(v)
    /\ ViewUsable(w)
    /\ views[v].cls = views[w].cls
    /\ LET r == View_assign(textures, views[v], views[w], Env(gl))
       IN /\ textures' = r.txs
          /\ views' = [views EXCEPT ![v] = r.view]
          /\ gl' = r.g.gl
          /\ calls' = r.g.calls
          /\ failed' = r.g.err
    /\ last' = Op("operator=", v, w, NoSampler)
    /\ ops' = ops + 1
    /\ UNCHANGED <<stats, handles, hstats, contextVars, app, configFile>>

(***************************************************************************)
(* GL::Context (Context.h): the cache of the OpenGL pipeline state, one    *)
(* instance per thread. The header gives the fields and the getters; the   *)
(* constructor, the setters and RefreshDriverState() are in Context.cpp.   *)
(***************************************************************************)
\* The values of the tracked state.
ValueTests == {"Off", "LessThan", "Always"}
StencilMasks == {0, 255}
\* The cached fields, and the values each can take.
CacheFields == {"currentDepthTest", "isDepthWriteEnabled", "stencilMaskFront", "stencilMaskBack"}
ValuesOf(field) ==
    IF field = "currentDepthTest" THEN ValueTests
    ELSE IF field = "isDepthWriteEnabled" THEN BOOLEAN
    ELSE StencilMasks
\* The state of a freshly created OpenGL context.
DriverDefaults == [currentDepthTest |-> "Off", isDepthWriteEnabled |-> TRUE,
                   stencilMaskFront |-> 255, stencilMaskBack |-> 255]
\* The driver call that changes the state a field caches.
DriverCall(field) ==
    IF field = "currentDepthTest" THEN "glDepthFunc"
    ELSE IF field = "isDepthWriteEnabled" THEN "glDepthMask"
    ELSE IF field = "stencilMaskFront" THEN "glStencilMaskSeparate(GL_FRONT)"
    ELSE "glStencilMaskSeparate(GL_BACK)"

ContextMsg == "A Context already exists on this thread"

\* A Context object not constructed yet.
NoContext == [state |-> "none", thread |-> "none", cache |-> DriverDefaults]

ContextLive(c) == contexts[c].state = "live"
NextContext(c) == contexts[c].state = "none" /\ \A u \in 1..(c - 1) : contexts[u].state # "none"

\* static Context* Context::GetCurrentContext(): the calling thread's instance.
GetCurrentContext(th) == current[th]

\* The getters of Context.h return the cached field.
GetDepthTest(cx) == cx.cache.currentDepthTest
GetDepthWrites(cx) == cx.cache.isDepthWriteEnabled
\* Mutant: the front-face getter returns the back-face mask.
GetStencilMaskFrontFaces_back(cx) == cx.cache.stencilMaskBack
GetStencilMaskFrontFaces(cx) == cx.cache.stencilMaskFront
GetStencilMaskBackFaces(cx) == cx.cache.stencilMaskBack
Getter(field, cx) ==
    IF field = "currentDepthTest" THEN GetDepthTest(cx)
    ELSE IF field = "isDepthWriteEnabled" THEN GetDepthWrites(cx)
    ELSE IF field = "stencilMaskFront" THEN GetStencilMaskFrontFaces(cx)
    ELSE GetStencilMaskBackFaces(cx)

\* The program runs until an assertion stops it.
CRunning == failed = NoError /\ ops < MaxOps

\* Mutant: a second Context on a thread replaces the first.
Context_ctor_unchecked(c, th) ==
    /\ CRunning
    /\ NextContext(c)
    /\ contexts' = [contexts EXCEPT ![c] = [state |-> "live", thread |-> th, cache |-> DriverDefaults]]
    /\ current' = [current EXCEPT ![th] = c]
    /\ driver' = [driver EXCEPT ![th] = DriverDefaults]
    /\ stale' = [stale EXCEPT ![th] = FALSE]
    /\ failed' = NoError
    /\ calls' = <<>>
    /\ last' = Op("Context", c, 0, th)
    /\ ops' = ops + 1
    /\ UNCHANGED <<textureVars, app, configFile>>

\* Context::Context(SDL_Window*, std::string&) on thread th: fails the check
\* if the thread has an instance; else creates the OpenGL context, becomes
\* the thread's instance and fills the cache from the driver.
Context_ctor(c, th) ==
    /\ CRunning
    /\ NextContext(c)
    /\ LET g == BPAssert(Env(gl), GetCurrentContext(th) = Null, ContextMsg)
       IN IF g.err # NoError
          THEN /\ failed' = g.err
               /\ UNCHANGED contextVars
          ELSE /\ contexts' = [contexts EXCEPT ![c] =
                                  [state |-> "live", thread |-> th, cache |-> DriverDefaults]]
               /\ current' = [current EXCEPT ![th] = c]
               /\ driver' = [driver EXCEPT ![th] = DriverDefaults]
               /\ stale' = [stale EXCEPT ![th] = FALSE]
               /\ failed' = NoError
    /\ calls' = <<>>
    /\ last' = Op("Context", c, 0, th)
    /\ ops' = ops + 1
    /\ UNCHANGED <<textureVars, app, configFile>>

\* Context::~Context(): the thread has no instance any more.
Context_dtor(c) ==
    /\ CRunning
    /\ ContextLive(c)
    /\ contexts' = [contexts EXCEPT ![c].state = "destroyed"]
    /\ current' = [current EXCEPT ![contexts[c].thread] = Null]
    /\ calls' = <<>>
    /\ last' = Op("~Context", c, 0, contexts[c].thread)
    /\ ops' = ops + 1
    /\ UNCHANGED <<textureVars, driver, stale, failed, app, configFile>>

\* Mutant: the setter always calls the driver.
SetField_always(cx, drv, field, value) ==
    [cache |-> [cx.cache EXCEPT ![field] = value],
     driver |-> [drv EXCEPT ![field] = value],
     calls |-> <<<<DriverCall(field), value>>>>]

\* SetX(value): compare with the cached value; if it differs, call the
\* driver and update the cache.
SetField(cx, drv, field, value) ==
    IF cx.cache[field] = value
    THEN [cache |-> cx.cache, driver |-> drv, calls |-> <<>>]
    ELSE [cache |-> [cx.cache EXCEPT ![field] = value],
          driver |-> [drv EXCEPT ![field] = value],
          calls |-> <<<<DriverCall(field), value>>>>]

\* One setter call on Context c: SetDepthTest, SetDepthWrites,
\* SetStencilMaskFrontFaces or SetStencilMaskBackFaces, by the field it sets.
Context_Set(c, field, value, name) ==
    /\ CRunning
    /\ ContextLive(c)
    /\ LET th == contexts[c].thread
           r == SetField(contexts[c], driver[th], field, value)
       IN /\ contexts' = [contexts EXCEPT ![c].cache = r.cache]
          /\ driver' = [driver EXCEPT ![th] = r.driver]
          /\ calls' = r.calls
    /\ last' = Op(name, c, field, value)
    /\ ops' = ops + 1
    /\ UNCHANGED <<textureVars, current, stale, failed, app, configFile>>

Context_SetDepthTest(c, mode) == Context_Set(c, "currentDepthTest", mode, "Set")
Context_SetDepthWrites(c, canWriteToDepth) == Context_Set(c, "isDepthWriteEnabled", canWriteToDepth, "Set")
Context_SetStencilMaskFrontFaces(c, newMask) == Context_Set(c, "stencilMaskFront", newMask, "Set")
Context_SetStencilMaskBackFaces(c, newMask) == Context_Set(c, "stencilMaskBack", newMask, "Set")

\* void SetStencilMask(GLuint newMask): both faces at once, one driver call
\* unless both cached masks already are newMask.
Context_SetStencilMask(c, newMask) ==
    /\ CRunning
    /\ ContextLive(c)
    /\ LET th == contexts[c].thread
           same == /\ contexts[c].cache.stencilMaskFront = newMask
                   /\ contexts[c].cache.stencilMaskBack = newMask
       IN IF same
          THEN /\ calls' = <<>>
               /\ UNCHANGED <<contexts, driver>>
          ELSE /\ contexts' = [contexts EXCEPT ![c].cache.stencilMaskFront = newMask,
                                               ![c].cache.stencilMaskBack = newMask]
               /\ driver' = [driver EXCEPT ![th].stencilMaskFront = newMask,
                                           ![th].stencilMaskBack = newMask]
               /\ calls' = <<<<"glStencilMask", newMask>>>>
    /\ last' = Op("SetStencilMask", c, "stencilMask", newMask)
    /\ ops' = ops + 1
    /\ UNCHANGED <<textureVars, current, stale, failed, app, configFile>>

\* A getter call on Context c; the value it returns is kept in `last`.
Context_Get(c, field) ==
    /\ CRunning
    /\ ContextLive(c)
    /\ calls' = <<>>
    /\ last' = Op("Get", c, field, Getter(field, contexts[c]))
    /\ ops' = ops + 1
    /\ UNCHANGED <<textureVars, contextVars, failed, app, configFile>>

\* void Context::RefreshDriverState(): every tracked value is queried from
\* the driver and overwrites the cache.
Context_RefreshDriverState(c) ==
    /\ CRunning
    /\ ContextLive(c)
    /\ contexts' = [contexts EXCEPT ![c].cache = driver[contexts[c].thread]]
    /\ stale' = [stale EXCEPT ![contexts[c].thread] = FALSE]
    /\ calls' = <<<<"glGet", "all tracked state">>>>
    /\ last' = Op("RefreshDriverState", c, stale[contexts[c].thread], NoSampler)
    /\ ops' = ops + 1
    /\ UNCHANGED <<textureVars, current, driver, failed, app, configFile>>

\* OpenGL work done not through the Context class, on a thread with a Context.
RawGLCall(th, field, value) ==
    /\ CRunning
    /\ current[th] # Null
    /\ driver[th][field] # value
    /\ driver' = [driver EXCEPT ![th][field] = value]
    /\ stale' = [stale EXCEPT ![th] = TRUE]
    /\ calls' = <<<<DriverCall(field), value>>>>
    /\ last' = Op("raw OpenGL", th, field, value)
    /\ ops' = ops + 1
    /\ UNCHANGED <<textureVars, contexts, current, failed, app, configFile>>

NextContexts ==
    \/ \E c \in ContextSlots, th \in Threads : Context_ctor(c, th)
    \/ \E c \in ContextSlots : Context_dtor(c)
    \/ \E c \in ContextSlots, mode \in ValueTests : Context_SetDepthTest(c, mode)
    \/ \E c \in ContextSlots, w \in BOOLEAN : Context_SetDepthWrites(c, w)
    \/ \E c \in ContextSlots, m \in StencilMasks : Context_SetStencilMaskFrontFaces(c, m)
    \/ \E c \in ContextSlots, m \in StencilMasks : Context_SetStencilMaskBackFaces(c, m)
    \/ \E c \in ContextSlots, m \in StencilMasks : Context_SetStencilMask(c, m)
    \/ \E c \in ContextSlots, field \in CacheFields : Context_Get(c, field)
    \/ \E c \in ContextSlots : Context_RefreshDriverState(c)
    \/ \E th \in Threads, field \in CacheFields : \E value \in ValuesOf(field) : RawGLCall(th, field, value)

(***************************************************************************)
(* ConfigFile (App.h, App.cpp): the fields, and their TOML document.       *)
(***************************************************************************)
\* glm::u32 values of LastWindowSize.
WindowDims == {0, 300, 2147483647}
\* (int64_t) of a glm::u32 keeps the value.
ToInt64(x) == x
\* (glm::u32) of an int64_t: the value modulo 2^32, which for the values
\* 0 .. 2^32 - 1 that ToInt64 produces is the value itself.
ToU32(v) == IF v >= 0 THEN v ELSE [twoToThe32Plus |-> v]
\* Values of the field a subclass adds and serializes through its hooks;
\* a new object of the subclass holds 0 there.
SubValues == {0, 1, 2}

\* A document is a function from its keys to their values.
EmptyDocument == [k \in {} |-> 0]
Put(document, key, value) == [k \in DOMAIN document \cup {key} |-> IF k = key THEN value ELSE document[k]]

\* The ConfigFile objects whose round trip is taken.
ConfigFiles ==
    [IsWindowMaximized : BOOLEAN, LastWindowSize : [x : WindowDims, y : WindowDims], sub : SubValues]

\* virtual void _ToToml(toml::Value&) const, as a subclass overrides it.
Sub_ToToml(c, document) == Put(document, "Sub", c.sub)
\* virtual void _FromToml(const toml::Value&), as a subclass overrides it.
Sub_FromToml(c, document) ==
    IF "Sub" \in DOMAIN document THEN [c EXCEPT !.sub = document["Sub"]] ELSE c

\* void ConfigFile::ToToml(toml::Value& document) const
ToToml(c, document) ==
    LET d1 == Put(document, "IsWindowMaximized", c.IsWindowMaximized)
        windowSize == <<ToInt64(c.LastWindowSize.x), ToInt64(c.LastWindowSize.y)>>
    IN Put(d1, "LastWindowSize", windowSize)

\* void ConfigFile::FromToml(const toml::Value& document)
FromToml(c, document) ==
    LET c1 == [c EXCEPT !.IsWindowMaximized =
                  IF "IsWindowMaximized" \in DOMAIN document THEN document["IsWindowMaximized"] ELSE FALSE]
        c2 == IF "LastWindowSize" \in DOMAIN document
              THEN [c1 EXCEPT !.LastWindowSize = [x |-> ToU32(document["LastWindowSize"][1]),
                                                  y |-> ToU32(document["LastWindowSize"][2])]]
              ELSE c1
    IN Sub_FromToml(c2, document)

(***************************************************************************)
(* App (App.h, App.cpp).                                                   *)
(***************************************************************************)
\* Times are in milliseconds.
\* float PhysicsTimeStep = 1.0f / 50.0f
PhysicsTimeStep == 20
\* uint_fast32_t MaxPhysicsStepsPerFrame = 10
MaxPhysicsStepsPerFrame == 10
\* glm::u32vec2 MinWindowSize{ 250, 250 }
MinWindowSize == [x |-> 250, y |-> 250]
\* float MinDeltaT = -1 (no cap), or a cap set by the client before Run().
MinDeltaTs == {-1, 15}
\* The time between two frames, as the performance counter reports it.
DeltaTs == {10, 30, 250}
\* Widths and heights a RESIZED event reports.
EventSizes == {100, 250, 300}
\* The window size of the config file.
ConfigWindowSize == [x |-> 300, y |-> 300]

\* A pointer SDL returns: an object, or null.
SdlPtrs == {Null, 1}
\* A return code of SDL: 0, or a negative error code.
SdlCodes == {0, -1}

\* The events SDL_PollEvent delivers that Run() tells apart.
Events ==
    {[type |-> "SDL_QUIT"], [type |-> "SDL_WINDOWEVENT_CLOSE"], [type |-> "other"]}
    \cup {[type |-> "SDL_WINDOWEVENT_RESIZED", data1 |-> w, data2 |-> h] : w \in EventSizes, h \in EventSizes}

\* The setup steps of Run(), in order, with the message each reports.
SetupMsg ==
    [SDL_Init |-> "Couldn't initialize SDL",
     SDL_CreateWindow |-> "Error creating main window",
     SDL_GL_CONTEXT_MAJOR_VERSION |-> "Error setting GL major version",
     SDL_GL_CONTEXT_MINOR_VERSION |-> "Error setting GL minor version",
     SDL_GL_CONTEXT_PROFILE_MASK |-> "Error setting context profile",
     SDL_GL_DOUBLEBUFFER |-> "Error setting double-buffering",
     SDL_GL_DEPTH_SIZE |-> "Error setting back buffer's depth bits",
     SDL_GL_STENCIL_SIZE |-> "Error setting back buffer's stencil bits",
     SDL_GL_CreateContext |-> "Error initializing OpenGL context",
     SDL_GL_SetSwapInterval |-> "Error setting vsync setting",
     glewInit |-> "Error setting up GLEW: "]
Attributes == <<"SDL_GL_CONTEXT_MAJOR_VERSION", "SDL_GL_CONTEXT_MINOR_VERSION",
                "SDL_GL_CONTEXT_PROFILE_MASK", "SDL_GL_DOUBLEBUFFER",
                "SDL_GL_DEPTH_SIZE", "SDL_GL_STENCIL_SIZE">>

\* What SDL and GLEW answer during the setup of one Run(): attr is the first
\* SDL_GL_SetAttribute call that fails (0: none does), vsync the answer to
\* the adaptive swap interval and vsyncOn the one to the fallback.
SetupResults ==
    [init : SdlCodes, window : SdlPtrs, attr : 0..Len(Attributes), context : SdlPtrs,
     vsync : SdlCodes, vsyncOn : SdlCodes, glew : {"GLEW_OK", "error"}]

\* App::App: no window, no OpenGL context, not running.
NoApp == [pc |-> "constructed", isRunning |-> FALSE, MainWindow |-> Null, OpenGLContext |-> Null,
          sdl |-> FALSE, timeSinceLastPhysicsUpdate |-> 0, MinDeltaT |-> -1,
          Config |-> [IsWindowMaximized |-> FALSE, LastWindowSize |-> ConfigWindowSize,
                      DisableWrite |-> FALSE],
          OnError |-> "opaque", fileOpens |-> TRUE,
          windowSize |-> [x |-> 0, y |-> 0],
          onQuits |-> 0, quitHandled |-> FALSE, frameAfterQuit |-> FALSE, began |-> FALSE, frames |-> 0,
          contextDeletes |-> 0, windowDestroys |-> 0]

\* bool DidQuit() const { return !isRunning; }
DidQuit(a) == ~a.isRunning

\* The operations of App take and give an environment that carries the App
\* object too (the error callback reaches it through the global ::App), and
\* the invocations of ::OnError that have not returned yet.
AppEnv(a) == [gl |-> gl, calls |-> <<>>, err |-> NoError, app |-> a, stack |-> <<>>]

\* F(v), with v evaluated once: what a call returned, kept in a local.
With(v, F(_)) == CHOOSE r \in {F(x) : x \in {v}} : TRUE

\* What the way through OnError, Quit, OnQuit and WriteToFile depends on.
ProgramState(a) ==
    [isRunning |-> a.isRunning, MainWindow |-> a.MainWindow, OpenGLContext |-> a.OpenGLContext,
     sdl |-> a.sdl, DisableWrite |-> a.Config.DisableWrite, fileOpens |-> a.fileOpens]

WriteMsg == "Error opening config file to write"
\* ::OnError was entered with the message and in the program state of an
\* invocation that has not returned: the calls repeat without end.
RecursionMsg == "OnError never returns"

RECURSIVE OnError(_, _), WriteToFile(_), OnQuit(_, _, _), Quit(_, _, _)

\* The caller-supplied error callback, which receives the message. An
\* "opaque" callback returns to its caller; "::OnError" is the callback of
\* the template application (main.cpp), which shows the message and calls
\* App->Quit(true).
OnError(g, msg) ==
    LET g1 == Issue(g, "OnError", msg)
        frame == [msg |-> msg, state |-> ProgramState(g.app)]
    IN IF g.app.OnError = "opaque" THEN g1
       ELSE LET g2 == Issue(g1, "SDL_ShowSimpleMessageBox", msg)
            IN IF \E i \in DOMAIN g.stack : g.stack[i] = frame
               THEN [g2 EXCEPT !.err = RecursionMsg]
               ELSE With(Quit(g.app, [g2 EXCEPT !.stack = Append(@, frame)], TRUE),
                         LAMBDA q : IF q.g.err # NoError THEN q.g ELSE [q.g EXCEPT !.stack = g.stack])

\* void ConfigFile::WriteToFile() const, of the App's Config (g.app.Config).
WriteToFile(g) ==
    LET g1 == Issue(g, "Config->WriteToFile", g.app.Config)
    IN IF g.app.Config.DisableWrite THEN g1
       ELSE IF g.app.fileOpens
       THEN Issue(g1, "doc.writeFormatted", ToToml(g.app.Config, EmptyDocument))
       ELSE OnError(g1, WriteMsg)

\* Mutant: the code is reported but the answer is always true.
TrySDL_true(g, returnCode, msgPrefix) ==
    With(IF returnCode # 0 THEN OnError(g, msgPrefix) ELSE g,
         LAMBDA g1 : [ok |-> TRUE,
                      g |-> IF g1.err # NoError THEN g1
                            ELSE Issue(g1, "TrySDL", [arg |-> returnCode, ret |-> TRUE])])

\* bool App::TrySDL(int returnCode, const std::string& msgPrefix); the call
\* and what it returned are kept in the trace after what it called (if the
\* error callback returned).
TrySDL(g, returnCode, msgPrefix) ==
    With(IF returnCode # 0 THEN OnError(g, msgPrefix) ELSE g,
         LAMBDA g1 : [ok |-> returnCode = 0,
                      g |-> IF g1.err # NoError THEN g1
                            ELSE Issue(g1, "TrySDL", [arg |-> returnCode, ret |-> returnCode = 0])])

\* bool App::TrySDL(void* shouldntBeNull, const std::string& msgPrefix)
TrySDL_ptr(g, shouldntBeNull, msgPrefix) ==
    IF shouldntBeNull = Null
    THEN With(TrySDL(g, -1, msgPrefix),
              LAMBDA r : [ok |-> r.ok,
                          g |-> IF r.g.err # NoError THEN r.g
                                ELSE Issue(r.g, "TrySDL(void*)", [arg |-> shouldntBeNull, ret |-> r.ok])])
    ELSE [ok |-> TRUE, g |-> Issue(g, "TrySDL(void*)", [arg |-> shouldntBeNull, ret |-> TRUE])]

\* The chain of SDL_GL_SetAttribute calls joined by ||: it stops at the first
\* TrySDL that returns false.
RECURSIVE SetAttributes(_, _, _)
SetAttributes(g, i, failing) ==
    IF i > Len(Attributes) THEN [ok |-> TRUE, g |-> g]
    ELSE With(TrySDL(Issue(g, "SDL_GL_SetAttribute", Attributes[i]),
                     IF i = failing THEN -1 ELSE 0, SetupMsg[Attributes[i]]),
              LAMBDA r : IF r.ok THEN SetAttributes(r.g, i + 1, failing) ELSE r)

\* Mutant: the pointers keep their values after the release.
OnQuit_keep(a, g, force) ==
    LET g1 == IF a.OpenGLContext # Null THEN Issue(g, "SDL_GL_DeleteContext", a.OpenGLContext) ELSE g
        g2 == IF a.MainWindow # Null THEN Issue(g1, "SDL_DestroyWindow", a.MainWindow) ELSE g1
        g3 == IF a.sdl THEN Issue(g2, "SDL_Quit", 0) ELSE g2
        a3 == [a EXCEPT !.sdl = FALSE,
                        !.contextDeletes = IF a.OpenGLContext # Null THEN @ + 1 ELSE @,
                        !.windowDestroys = IF a.MainWindow # Null THEN @ + 1 ELSE @]
        Assign(w) == [w EXCEPT !.app.isRunning = TRUE, !.app.onQuits = @ + 1]
    IN With(WriteToFile([g3 EXCEPT !.app = a3]),
            LAMBDA w : IF w.err # NoError THEN [app |-> w.app, g |-> w]
                       ELSE [app |-> Assign(w).app, g |-> Assign(w)])

\* void App::OnQuit(bool force). When the error callback under WriteToFile
\* does not return, neither does OnQuit: the App is as it was left there.
OnQuit(a, g, force) ==
    LET g1 == IF a.OpenGLContext # Null THEN Issue(g, "SDL_GL_DeleteContext", a.OpenGLContext) ELSE g
        g2 == IF a.MainWindow # Null THEN Issue(g1, "SDL_DestroyWindow", a.MainWindow) ELSE g1
        g3 == IF a.sdl THEN Issue(g2, "SDL_Quit", 0) ELSE g2
        a3 == [a EXCEPT !.OpenGLContext = Null, !.MainWindow = Null, !.sdl = FALSE,
                        !.contextDeletes = IF a.OpenGLContext # Null THEN @ + 1 ELSE @,
                        !.windowDestroys = IF a.MainWindow # Null THEN @ + 1 ELSE @]
        Assign(w) == [w EXCEPT !.app.isRunning = TRUE, !.app.onQuits = @ + 1]
    IN With(WriteToFile([g3 EXCEPT !.app = a3]),
            LAMBDA w : IF w.err # NoError THEN [app |-> w.app, g |-> w]
                       ELSE [app |-> Assign(w).app, g |-> Assign(w)])

\* void Quit(bool force) { if (isRunning) OnQuit(force); }
Quit(a, g, force) ==
    IF a.isRunning THEN OnQuit(a, g, force) ELSE [app |-> a, g |-> [g EXCEPT !.app = a]]

\* Mutant: the window is resized only if both dimensions are too small.
OnResized_both(a, g, data1, data2) ==
    IF data1 < MinWindowSize.x /\ data2 < MinWindowSize.y
    THEN LET w == IF data1 > MinWindowSize.x THEN data1 ELSE MinWindowSize.x
             h == IF data2 > MinWindowSize.y THEN data2 ELSE MinWindowSize.y
         IN [app |-> [a EXCEPT !.windowSize = [x |-> w, y |-> h]],
             g |-> Issue(g, "SDL_SetWindowSize", [window |-> a.MainWindow, w |-> w, h |-> h])]
    ELSE [app |-> [a EXCEPT !.windowSize = [x |-> data1, y |-> data2]], g |-> g]

\* case SDL_WINDOWEVENT_RESIZED: the window has the size the event reports,
\* and is resized if that is below the minimum.
OnResized(a, g, data1, data2) ==
    IF data1 < MinWindowSize.x \/ data2 < MinWindowSize.y
    THEN LET w == IF data1 > MinWindowSize.x THEN data1 ELSE MinWindowSize.x
             h == IF data2 > MinWindowSize.y THEN data2 ELSE MinWindowSize.y
         IN [app |-> [a EXCEPT !.windowSize = [x |-> w, y |-> h]],
             g |-> Issue(g, "SDL_SetWindowSize", [window |-> a.MainWindow, w |-> w, h |-> h])]
    ELSE [app |-> [a EXCEPT !.windowSize = [x |-> data1, y |-> data2]], g |-> g]

\* while (timeSinceLastPhysicsUpdate > PhysicsTimeStep) { ...; OnPhysics(PhysicsTimeStep); }
RECURSIVE PhysicsLoop(_, _)
PhysicsLoop(time, g) ==
    IF time > PhysicsTimeStep
    THEN PhysicsLoop(time - PhysicsTimeStep, Issue(g, "OnPhysics", PhysicsTimeStep))
    ELSE [time |-> time, g |-> g]

\* while (isRunning): where Run() goes at the top of the main loop.
LoopTest(a) == IF a.isRunning THEN "events" ELSE "returned"

\* The initialization region of Run(): [app, g, done], done when every step
\* succeeded and OnBegin() was called; otherwise Run() has returned.
Run_Setup(a, g, r) ==
    LET Failed(s) == [app |-> s.g.app, g |-> s.g, done |-> FALSE]
        \* glewInit, ImGui, OnBegin
        Glew(s6) ==
            IF ~s6.ok THEN Failed(s6)
            ELSE LET g7 == Issue(s6.g, "glewInit", r.glew)
                     g9 == Issue(Issue([g7 EXCEPT !.app.began = TRUE],
                                       "ImGui::CreateContext", g7.app.MainWindow), "OnBegin", 0)
                 IN IF r.glew # "GLEW_OK"
                    THEN With(OnError(g7, SetupMsg.glewInit),
                              LAMBDA g8 : [app |-> g8.app, g |-> g8, done |-> FALSE])
                    ELSE [app |-> g9.app, g |-> g9, done |-> TRUE]
        \* SDL_GL_SetSwapInterval
        VSync(s4) ==
            IF ~s4.ok THEN Failed(s4)
            ELSE LET g5 == Issue(s4.g, "SDL_GL_SetSwapInterval", "Adaptive")
                     g6 == IF r.vsync # 0 THEN Issue(g5, "SDL_GL_SetSwapInterval", "On") ELSE g5
                     vSyncResult == IF r.vsync # 0 THEN r.vsyncOn ELSE r.vsync
                 IN With(TrySDL(g6, vSyncResult, SetupMsg.SDL_GL_SetSwapInterval), Glew)
        \* the last of the || chain: OpenGLContext = SDL_GL_CreateContext(MainWindow)
        CreateContext(s3) ==
            IF ~s3.ok THEN Failed(s3)
            ELSE LET i4 == Issue([s3.g EXCEPT !.app.OpenGLContext = r.context],
                                 "SDL_GL_CreateContext", s3.g.app.MainWindow)
                 IN With(TrySDL_ptr(i4, r.context, SetupMsg.SDL_GL_CreateContext), VSync)
        SetAttribute(s2) ==
            IF ~s2.ok THEN Failed(s2)
            ELSE With(SetAttributes(s2.g, 1, r.attr), CreateContext)
        CreateWindow(s1) ==
            IF ~s1.ok THEN Failed(s1)
            ELSE LET i2 == Issue([s1.g EXCEPT !.app.MainWindow = r.window,
                                              !.app.windowSize = IF r.window # Null
                                                                 THEN s1.g.app.Config.LastWindowSize ELSE @],
                                 "SDL_CreateWindow", s1.g.app.Config.LastWindowSize)
                 IN With(TrySDL_ptr(i2, r.window, SetupMsg.SDL_CreateWindow), SetAttribute)
        i1 == Issue([g EXCEPT !.app = [a EXCEPT !.sdl = (r.init = 0)]], "SDL_Init", "SDL_INIT_VIDEO")
    IN With(TrySDL(i1, r.init, SetupMsg.SDL_Init), CreateWindow)

\* What an operation leaves of the App: where the error callback did not
\* return, the App as it was left there, and the program is over.
Left(g, a) == IF g.err # NoError THEN [g.app EXCEPT !.pc = "crashed"] ELSE a

\* The program runs on (the run's length is bounded).
ARunning == failed = NoError /\ ops < MaxOps

\* void App::Run(), from its start to the main loop (or to the return of a
\* failed setup step).
App_Run(r) ==
    /\ ARunning
    /\ app.pc = "constructed"
    /\ \E s \in {Run_Setup([app EXCEPT !.timeSinceLastPhysicsUpdate = 0, !.isRunning = TRUE],
                            Issue(AppEnv(app), "Config->LoadFromFile", 0), r)} :
          /\ app' = Left(s.g, [s.app EXCEPT !.pc = IF s.done THEN LoopTest(s.app) ELSE "returned"])
          /\ calls' = s.g.calls
          /\ failed' = s.g.err
    /\ last' = Op("Run", 0, 0, r)
    /\ ops' = ops + 1
    /\ UNCHANGED <<textureVars, contextVars, configFile>>

\* One round of while (SDL_PollEvent(&sdlEvent) != 0): the event e is
\* handled; maximized is what SDL_GetWindowFlags says of the window.
App_Run_PollEvent(e, maximized) ==
    /\ ARunning
    /\ app.pc = "events"
    /\ app.sdl
    /\ \E h \in {LET g0 == Issue(AppEnv(app), "ImGui_ImplSDL2_ProcessEvent", e.type)
                   IN IF e.type \in {"SDL_QUIT", "SDL_WINDOWEVENT_CLOSE"}
                      THEN With(OnQuit(app, g0, FALSE),
                                LAMBDA q : [app |-> [q.app EXCEPT !.quitHandled = TRUE], g |-> q.g])
                      ELSE IF e.type = "SDL_WINDOWEVENT_RESIZED"
                      THEN OnResized(app, g0, e.data1, e.data2)
                      ELSE [app |-> app, g |-> g0]} :
       LET \* a destroyed window has no flags, and its size is not written
           isMax == maximized /\ h.app.MainWindow # Null
           g1 == Issue(h.g, "SDL_GetWindowFlags", h.app.MainWindow)
           g2 == IF ~isMax THEN Issue(g1, "SDL_GetWindowSize", h.app.MainWindow) ELSE g1
           g3 == Issue(g2, "OnEvent", e.type)
       IN IF h.g.err # NoError
          THEN /\ app' = Left(h.g, app)
               /\ calls' = h.g.calls
               /\ failed' = h.g.err
          ELSE /\ app' = [h.app EXCEPT !.Config.IsWindowMaximized = isMax,
                                       !.Config.LastWindowSize = IF isMax THEN @ ELSE h.app.windowSize]
               /\ calls' = g3.calls
               /\ failed' = failed
    /\ last' = Op("PollEvent", 0, 0, e)
    /\ ops' = ops + 1
    /\ UNCHANGED <<textureVars, contextVars, configFile>>

\* The rest of one round of the main loop, once SDL_PollEvent returned 0:
\* the frame, deltaT after the last one. Without an OpenGL context the
\* OpenGL calls of the frame may end the program (survives = FALSE).
App_Run_Frame(deltaT, survives) ==
    /\ ARunning
    /\ app.pc = "events"
    /\ (app.OpenGLContext # Null) => survives
    /\ IF deltaT < app.MinDeltaT
       THEN /\ calls' = <<<<"sleep_for", app.MinDeltaT - deltaT>>>>
            /\ app' = [app EXCEPT !.pc = LoopTest(app)]
       ELSE IF ~survives
       THEN /\ calls' = <<<<"ImGui_ImplOpenGL3_NewFrame", app.OpenGLContext>>>>
            /\ app' = [app EXCEPT !.pc = "crashed"]
       ELSE LET g0 == Issue(Env(gl), "ImGui_ImplOpenGL3_NewFrame", app.OpenGLContext)
                g1 == Issue(g0, "ImGui_ImplSDL2_NewFrame", app.MainWindow)
                ph == PhysicsLoop(app.timeSinceLastPhysicsUpdate + deltaT, g1)
                g2 == Issue(ph.g, "OnUpdate", deltaT)
                g3 == Issue(g2, "GL::SetViewport", app.OpenGLContext)
                g4 == Issue(g3, "OnRendering", deltaT)
                g5 == Issue(g4, "ImGui::Render", app.OpenGLContext)
                g6 == Issue(g5, "SDL_GL_SwapWindow", app.MainWindow)
            IN /\ calls' = g6.calls
               /\ app' = [app EXCEPT !.timeSinceLastPhysicsUpdate = ph.time,
                                     !.frames = @ + 1,
                                     !.frameAfterQuit = @ \/ app.quitHandled,
                                     !.pc = LoopTest(app)]
    /\ last' = Op("Frame", deltaT, survives, NoSampler)
    /\ ops' = ops + 1
    /\ UNCHANGED <<textureVars, contextVars, failed, configFile>>

\* app.Quit(force), called by the client: before Run(), from one of the
\* callbacks of the main loop, or after Run() returned.
App_Quit(force) ==
    /\ ARunning
    /\ app.pc \in {"constructed", "events", "returned"}
    /\ \E q \in {Quit(app, AppEnv(app), force)} :
          /\ app' = Left(q.g, q.app)
          /\ calls' = q.g.calls
          /\ failed' = q.g.err
    /\ last' = Op("Quit", force, app.onQuits, NoSampler)
    /\ ops' = ops + 1
    /\ UNCHANGED <<textureVars, contextVars, configFile>>

\* App::~App(): if (isRunning) Quit(true);
App_dtor ==
    /\ ARunning
    /\ app.pc \in {"constructed", "returned"}
    /\ \E q \in {IF app.isRunning THEN Quit(app, AppEnv(app), TRUE)
                    ELSE [app |-> app, g |-> AppEnv(app)]} :
          /\ app' = Left(q.g, [q.app EXCEPT !.pc = "destroyed"])
          /\ calls' = q.g.calls
          /\ failed' = q.g.err
    /\ last' = Op("~App", 0, app.onQuits, NoSampler)
    /\ ops' = ops + 1
    /\ UNCHANGED <<textureVars, contextVars, configFile>>

NextApp ==
    \/ \E r \in SetupResults : App_Run(r)
    \/ \E e \in Events, maximized \in BOOLEAN : App_Run_PollEvent(e, maximized)
    \/ \E deltaT \in DeltaTs, survives \in BOOLEAN : App_Run_Frame(deltaT, survives)
    \/ \E force \in BOOLEAN : App_Quit(force)
    \/ App_dtor


(***************************************************************************)
(* The round trip of a ConfigFile through its TOML document.               *)
(***************************************************************************)
NoConfigFile == [pc |-> "none"]

\* The document is written from the ConfigFile object.
ConfigFile_ToToml ==
    /\ configFile.pc = "constructed"
    /\ configFile' = [configFile EXCEPT !.pc = "written",
                                        !.document = ToToml(configFile.config, EmptyDocument)]
    /\ UNCHANGED <<textureVars, contextVars, calls, last, failed, ops, app>>

\* The document is read into a new object of the same class, whose base
\* fields hold whatever fresh has before they are read.
ConfigFile_FromToml(fresh) ==
    /\ configFile.pc = "written"
    /\ configFile' = [configFile EXCEPT !.pc = "read",
                                        !.loaded = FromToml(fresh, configFile.document)]
    /\ UNCHANGED <<textureVars, contextVars, calls, last, failed, ops, app>>

(***************************************************************************)
(* The specification of Textures and their views.                          *)
(***************************************************************************)
InitGl == [nextTex |-> 1, nextSampler |-> 1, resident |-> {},
           texDeletes |-> EmptyMap, samplerDeletes |-> EmptyMap]

InitObjects ==
    /\ textures = [t \in TexObjs |-> NoTexture]
    /\ views = [v \in ViewSlots |-> NoView]
    /\ stats = [t \in TexObjs |-> NoStats]
    /\ handles = [h \in HandleSlots |-> NoHandle]
    /\ hstats = [h \in HandleSlots |-> NoHStats]
    /\ gl = InitGl
    /\ calls = <<>>
    /\ last = NoOp
    /\ failed = NoError
    /\ ops = 0
    /\ contexts = [c \in ContextSlots |-> NoContext]
    /\ current = [th \in Threads |-> Null]
    /\ driver = [th \in Threads |-> DriverDefaults]
    /\ stale = [th \in Threads |-> FALSE]

Init == InitObjects /\ app = NoApp /\ configFile = NoConfigFile

\* The Apps with the error callback onError, as constructed: the client may
\* have set a frame-time cap and -noWriteConfig, and the config file can be
\* opened for writing or cannot.
Apps(onError) ==
    {[NoApp EXCEPT !.MinDeltaT = m, !.OnError = onError, !.Config.DisableWrite = d, !.fileOpens = f] :
        m \in MinDeltaTs, d \in BOOLEAN, f \in BOOLEAN}

\* The App is constructed; its error callback returns to its caller.
InitApp ==
    /\ InitObjects
    /\ app \in Apps("opaque")
    /\ configFile = NoConfigFile

\* The template application (main.cpp): its App reports errors to ::OnError.
InitTemplate ==
    /\ InitObjects
    /\ app \in Apps("::OnError")
    /\ configFile = NoConfigFile

Next ==
    \/ \E t \in TexObjs, c \in TextureConfigs : Texture_ctor(t, c.format, c.sampler)
    \/ \E t, src \in TexObjs : Texture_move(t, src)
    \/ \E t \in TexObjs : Texture_dtor(t)
    \/ \E t \in TexObjs : Texture_RecomputeMips(t)
    \/ \E t \in TexObjs, c \in Samplers \cup {NoSampler}, v \in ViewSlots : Texture_GetViewFull(t, c, v)
    \/ \E t \in TexObjs, d \in ImgKeys, v \in ViewSlots : Texture_GetViewFull_Img(t, d, v)
    \/ \E v \in ViewSlots : ViewDtor(v)
    \/ \E v, w \in ViewSlots : ViewCopy(v, w)
    \/ \E v, w \in ViewSlots : ViewAssign(v, w)

Spec == Init /\ [][Next]_vars

SpecContext == Init /\ [][NextContexts]_vars

SpecApp == InitApp /\ [][NextApp]_vars

SpecTemplate == InitTemplate /\ [][NextApp]_vars

InitConfig ==
    /\ InitObjects
    /\ app = NoApp
    /\ configFile \in {[pc |-> "constructed", config |-> c, document |-> EmptyDocument, loaded |-> c] :
                          c \in ConfigFiles}

NextConfig ==
    \/ ConfigFile_ToToml
    \/ \E fresh \in {c \in ConfigFiles : c.sub = 0} : ConfigFile_FromToml(fresh)

SpecConfig == InitConfig /\ [][NextConfig]_vars

(***************************************************************************)
(* The handle-level specification: TexHandle and ImgHandle objects used    *)
(* directly through their own interface (construct, Activate, Deactivate,  *)
(* move-construct, destroy).                                               *)
(***************************************************************************)
HandleVariants == {"TexHandle", "TexHandle+Sampler", "ImgHandle"}
\* The image a stand-alone ImgHandle is made for.
HandleImage == [kind |-> "ImgHandleData", MipLevel |-> 0, SingleLayer |-> NoLayer, Access |-> "ReadOnly"]

\* The format of the texture a stand-alone handle is made for.
HandleFormat == CHOOSE f \in Formats : ~f.compressed /\ ~f.integer

HRunning == failed = NoError /\ ops < MaxOps
HLive(h) == handles[h].state = "live"
\* A moved-from handle is only destroyed.
HOwning(h) == HLive(h) /\ ~handles[h].obj.skipDestructor
NextHandle(h) == handles[h].state = "none" /\ \A u \in 1..(h - 1) : handles[u].state # "none"

\* One of the three constructors; the handle in slot h is made for the
\* texture named h, so two handles never name the same (texture, sampler) pair.
Handle_ctor(variant, g, texPtr) ==
    IF variant = "TexHandle" THEN TexHandle_ctor(g, texPtr)
    ELSE IF variant = "TexHandle+Sampler" THEN TexHandle_ctor_sampler(g, texPtr, HandleFormat, CHOOSE x \in DefaultSamplers : TRUE)
    ELSE ImgHandle_ctor(g, texPtr, HandleImage)

HCtor(h, variant) ==
    /\ HRunning
    /\ NextHandle(h)
    /\ LET r == Handle_ctor(variant, Env(gl), h)
       IN /\ handles' = [handles EXCEPT ![h] = [state |-> "live", obj |-> r.h]]
          /\ gl' = r.g.gl
          /\ calls' = r.g.calls
          /\ failed' = r.g.err
    /\ hstats' = [hstats EXCEPT ![h] = NoHStats]
    /\ last' = Op("Handle", h, 0, NoSampler)
    /\ ops' = ops + 1
    /\ UNCHANGED <<textures, views, stats, contextVars, app, configFile>>

HActivate(h) ==
    /\ HRunning
    /\ HOwning(h)
    /\ LET r == Handle_Activate(handles[h].obj, Env(gl))
       IN /\ handles' = [handles EXCEPT ![h].obj = r.h]
          /\ hstats' = [hstats EXCEPT ![h].acts = @ + 1,
                                      ![h].resident = @ + CountCalls(r.g.calls, ResidentCalls)]
          /\ gl' = r.g.gl
          /\ calls' = r.g.calls
          /\ failed' = r.g.err
    /\ last' = Op("Activate", h, 0, NoSampler)
    /\ ops' = ops + 1
    /\ UNCHANGED <<textures, views, stats, contextVars, app, configFile>>

HDeactivate(h) ==
    /\ HRunning
    /\ HOwning(h)
    /\ LET r == Handle_Deactivate(handles[h].obj, Env(gl))
       IN /\ handles' = [handles EXCEPT ![h].obj = r.h]
          /\ hstats' = [hstats EXCEPT ![h].deacts = @ + 1,
                                      ![h].returns = @ + (IF handles[h].obj.activeCount = 1 THEN 1 ELSE 0),
                                      ![h].nonResident = @ + CountCalls(r.g.calls, NonResidentCalls)]
          /\ gl' = r.g.gl
          /\ calls' = r.g.calls
          /\ failed' = r.g.err
    /\ last' = Op("Deactivate", h, 0, NoSampler)
    /\ ops' = ops + 1
    /\ UNCHANGED <<textures, views, stats, contextVars, app, configFile>>

\* Handle dst(std::move(src));
HMove(dst, src) ==
    /\ HRunning
    /\ NextHandle(dst)
    /\ HOwning(src)
    /\ LET m == Handle_move(handles[src].obj)
       IN handles' = [handles EXCEPT ![dst] = [state |-> "live", obj |-> m.dst],
                                     ![src].obj = m.src]
    /\ hstats' = [hstats EXCEPT ![dst] = hstats[src]]
    /\ calls' = <<>>
    /\ last' = Op("Handle&&", dst, src, NoSampler)
    /\ ops' = ops + 1
    /\ UNCHANGED <<textures, views, stats, gl, failed, contextVars, app, configFile>>

HDtor(h) ==
    /\ HRunning
    /\ HLive(h)
    /\ LET r == Handle_dtor(handles[h].obj, Env(gl))
       IN /\ handles' = [handles EXCEPT ![h] = [state |-> "destroyed", obj |-> r.h]]
          /\ hstats' = [hstats EXCEPT ![h].nonResident = @ + CountCalls(r.g.calls, NonResidentCalls)]
          /\ gl' = r.g.gl
          /\ calls' = r.g.calls
          /\ failed' = r.g.err
    /\ last' = Op("~Handle", h, 0, NoSampler)
    /\ ops' = ops + 1
    /\ UNCHANGED <<textures, views, stats, contextVars, app, configFile>>

NextHandles ==
    \/ \E h \in HandleSlots, variant \in HandleVariants : HCtor(h, variant)
    \/ \E h \in HandleSlots : HActivate(h)
    \/ \E h \in HandleSlots : HDeactivate(h)
    \/ \E dst, src \in HandleSlots : HMove(dst, src)
    \/ \E h \in HandleSlots : HDtor(h)

SpecHandles == Init /\ [][NextHandles]_vars

(***************************************************************************)
(* Properties.                                                             *)
(***************************************************************************)

\* C1: on one Texture, the bindless texture handles minted by the driver are
\* as many as the distinct resolved configurations requested with GetView
\* (explicit sampler, or the default one), and the handle map holds exactly
\* one handle per requested configuration: a repeated request mints nothing.
C1_OneHandlePerConfiguration ==
    \A t \in TexObjs :
        Live(t) =>
            /\ stats[t].texMints = Cardinality(stats[t].texReq)
            /\ DOMAIN textures[t].texHandles \cap Samplers = stats[t].texReq

\* C1's case: three requests for two configurations, the last one a repeat
\* that minted nothing.
C1_Witness ==
    \E t \in TexObjs :
        /\ Live(t)
        /\ last.op = "GetViewFull" /\ last.a = t
        /\ CountCalls(calls, TexMintCalls) = 0
        /\ Cardinality(stats[t].texReq) = 2
        /\ stats[t].texMints = 2

\* C2 as stated: after N >= 1 Activate() calls (view constructions) and the N
\* matching Deactivate() calls in any interleaving that never deactivates
\* more often than activated, make-resident and make-non-resident have each
\* been issued exactly once and the count is 0.
C2_OnceInAnyInterleaving ==
    \A h \in HandleSlots :
        (HOwning(h) /\ failed = NoError /\ hstats[h].acts >= 1 /\ hstats[h].acts = hstats[h].deacts) =>
            /\ handles[h].obj.activeCount = 0
            /\ hstats[h].resident = 1
            /\ hstats[h].nonResident = 1

\* C2, amended: make-resident is issued exactly once each time the count
\* leaves 0 and make-non-resident exactly once each time it comes back to 0;
\* so after N >= 1 activations and the N matching deactivations the count is
\* 0, and each call has been issued exactly once if the count came back to 0
\* only with the last deactivation.
C2_OncePerReturnToZero ==
    \A h \in HandleSlots :
        (HOwning(h) /\ failed = NoError) =>
            /\ handles[h].obj.activeCount = hstats[h].acts - hstats[h].deacts
            /\ hstats[h].nonResident = hstats[h].returns
            /\ hstats[h].resident = hstats[h].returns + (IF handles[h].obj.activeCount > 0 THEN 1 ELSE 0)
            /\ (hstats[h].acts >= 1 /\ hstats[h].acts = hstats[h].deacts /\ hstats[h].returns = 1) =>
                   (hstats[h].resident = 1 /\ hstats[h].nonResident = 1)

\* C2's case: two activations, then the two deactivations.
C2_Witness ==
    \E h \in HandleSlots :
        /\ HOwning(h) /\ failed = NoError
        /\ hstats[h].acts = 2 /\ hstats[h].deacts = 2 /\ hstats[h].returns = 1
        /\ hstats[h].resident = 1 /\ hstats[h].nonResident = 1

\* C3: a handle object that owns its driver handle (constructed, not
\* moved-from) is resident in the driver exactly when its activation count
\* is nonzero.
C3_ResidentIffActive ==
    \A h \in HandleSlots :
        (handles[h].state # "none" /\ ~handles[h].obj.skipDestructor) =>
            ((handles[h].obj.ViewGlPtr \in gl.resident) <=> (handles[h].obj.activeCount > 0))

\* C3's case: a handle activated twice and deactivated once is still resident.
C3_Witness ==
    \E h \in HandleSlots :
        /\ HOwning(h)
        /\ hstats[h].acts = 2 /\ hstats[h].deacts = 1
        /\ handles[h].obj.ViewGlPtr \in gl.resident

\* C4: Deactivate() on a handle whose count is 0 fails the assertion: the
\* count stays 0 (it is never below 0) and the call issues no driver call.
C4_DeactivateAtZeroAsserts ==
    [][\A h \in HandleSlots :
          /\ handles'[h].obj.activeCount >= 0
          /\ (last'.op = "Deactivate" /\ last'.a = h /\ handles[h].obj.activeCount = 0) =>
                 /\ failed' = DeactivateMsg
                 /\ handles'[h].obj.activeCount = 0
                 /\ calls' = <<>>
                 /\ gl' = gl]_vars

\* C4's case: a handle activated and deactivated, then deactivated once more.
C4_Witness ==
    \E h \in HandleSlots :
        /\ failed = DeactivateMsg
        /\ last.op = "Deactivate" /\ last.a = h
        /\ hstats[h].acts = 1 /\ hstats[h].deacts = 2

\* The activation count of every handle object of every Texture, by place.
CountsOf(txs) ==
    [t \in TexObjs |-> [tex |-> [k \in DOMAIN txs[t].texHandles |-> txs[t].texHandles[k].activeCount],
                        img |-> [k \in DOMAIN txs[t].imgHandles |-> txs[t].imgHandles[k].activeCount]]]

\* The residency calls a copy-assignment from a view of another handle issues,
\* given the two handles before it.
AssignCalls(old, new) ==
    (IF old.activeCount = 1
     THEN <<<<IF old.cls = "TexHandle" THEN "glMakeTextureHandleNonResidentARB"
              ELSE "glMakeImageHandleNonResidentARB", old.ViewGlPtr>>>>
     ELSE <<>>)
    \o
    (IF new.activeCount = 0
     THEN <<<<IF new.cls = "TexHandle" THEN "glMakeTextureHandleResidentARB"
              ELSE "glMakeImageHandleResidentARB", new.ViewGlPtr>>>>
     ELSE <<>>)

\* C5: copy-assigning a view from a view of a different handle takes exactly
\* 1 from the old handle's activation count and adds exactly 1 to the new
\* handle's (issuing the residency calls of those transitions and no other
\* call), and the assigned view then refers to the new handle; assigning
\* from a view of the same handle changes no count and issues no driver call.
C5_CopyAssignment ==
    [][\A v, w \in ViewSlots :
          (last'.op = "operator=" /\ last'.a = v /\ last'.b = w) =>
              LET self == views[v]
                  cpy == views[w]
                  old == HandleOf(textures, self)
                  new == HandleOf(textures, cpy)
              IN IF ~SameHandle(self, cpy)
                 THEN /\ HandleOf(textures', self).activeCount = old.activeCount - 1
                      /\ HandleOf(textures', cpy).activeCount = new.activeCount + 1
                      /\ \A x \in ViewSlots :
                            (ViewUsable(x) /\ ~SameHandle(views[x], self) /\ ~SameHandle(views[x], cpy)) =>
                                HandleOf(textures', views[x]) = HandleOf(textures, views[x])
                      /\ views'[v].Owner = cpy.Owner /\ views'[v].Key = cpy.Key
                      /\ views'[v].GlPtr = new.ViewGlPtr
                      /\ calls' = AssignCalls(old, new)
                      /\ failed' = NoError
                 ELSE /\ CountsOf(textures') = CountsOf(textures)
                      /\ views' = views
                      /\ calls' = <<>>
                      /\ gl' = gl
                      /\ failed' = NoError]_vars

\* C5's case: the only view of one handle was assigned from a view of another
\* handle, which revoked the old handle's residency.
C5_Witness ==
    /\ last.op = "operator="
    /\ last.a # last.b
    /\ SameHandle(views[last.a], views[last.b])
    /\ HandleOf(textures, views[last.a]).activeCount = 2
    /\ Len(calls) = 1
    /\ calls[1][1] \in NonResidentCalls

\* C6: destroying a handle that is not moved-from, with activation count k:
\* the count ends at 0; for k > 0 make-non-resident is issued exactly once,
\* for k = 0 no residency call is issued.
C6_ForcedDeactivation ==
    [][\A h \in HandleSlots :
          (last'.op = "~Handle" /\ last'.a = h /\ ~handles[h].obj.skipDestructor) =>
              /\ handles'[h].state = "destroyed"
              /\ handles'[h].obj.activeCount = 0
              /\ CountCalls(calls', NonResidentCalls) = (IF handles[h].obj.activeCount > 0 THEN 1 ELSE 0)
              /\ CountCalls(calls', ResidentCalls) = 0
              /\ handles'[h].obj.ViewGlPtr \notin gl'.resident
              /\ failed' = NoError]_vars

\* C6's case: a handle destroyed with two activations outstanding.
C6_Witness ==
    \E h \in HandleSlots :
        /\ last.op = "~Handle" /\ last.a = h
        /\ handles[h].state = "destroyed"
        /\ hstats[h].acts - hstats[h].deacts = 2
        /\ CountCalls(calls, NonResidentCalls) = 1

\* C7: move-construction gives the new handle the source's driver handle,
\* sampler object and activation count and issues no driver call; the source
\* becomes inert, and destroying an inert handle issues no driver call; so no
\* sampler object is deleted more than once.
C7_MoveLeavesSourceInert ==
    [][/\ \A dst, src \in HandleSlots :
             (last'.op = "Handle&&" /\ last'.a = dst /\ last'.b = src) =>
                 /\ handles'[dst].obj.ViewGlPtr = handles[src].obj.ViewGlPtr
                 /\ handles'[dst].obj.cls = handles[src].obj.cls
                 /\ handles[src].obj.cls = "TexHandle" =>
                        handles'[dst].obj.SamplerGlPtr = handles[src].obj.SamplerGlPtr
                 /\ handles'[dst].obj.activeCount = handles[src].obj.activeCount
                 /\ ~handles'[dst].obj.skipDestructor
                 /\ handles'[src].obj.skipDestructor
                 /\ calls' = <<>>
       /\ \A h \in HandleSlots :
             (last'.op = "~Handle" /\ last'.a = h /\ handles[h].obj.skipDestructor) =>
                 (calls' = <<>> /\ gl' = gl)
       /\ \A x \in DOMAIN gl'.samplerDeletes : gl'.samplerDeletes[x] <= 1]_vars

\* C7's case: a handle with a sampler object and one activation was moved,
\* and both objects were destroyed: the sampler object was deleted once.
C7_Witness ==
    \E dst, src \in HandleSlots :
        /\ handles[src].state = "destroyed" /\ handles[src].obj.skipDestructor
        /\ handles[dst].state = "destroyed" /\ ~handles[dst].obj.skipDestructor
        /\ handles[dst].obj.ViewGlPtr = handles[src].obj.ViewGlPtr
        /\ handles[dst].obj.cls = "TexHandle"
        /\ handles[dst].obj.SamplerGlPtr # Null
        /\ gl.samplerDeletes[handles[dst].obj.SamplerGlPtr] = 1
        /\ hstats[dst].acts = 1 /\ hstats[dst].nonResident = 1

\* C8: the image handles minted for a Texture are as many as the distinct
\* (mip level, layer, access) triples requested, each is stored in the
\* image-handle map under its own triple, and every ImgView wraps the handle
\* of a requested triple.
C8_OneImgHandlePerTriple ==
    /\ \A t \in TexObjs :
          Live(t) =>
              /\ stats[t].imgMints = Cardinality(stats[t].imgReq)
              /\ DOMAIN textures[t].imgHandles = stats[t].imgReq
              /\ \A k \in DOMAIN textures[t].imgHandles :
                    /\ textures[t].imgHandles[k].MipLevel = k.MipLevel
                    /\ textures[t].imgHandles[k].SingleLayer = k.SingleLayer
                    /\ textures[t].imgHandles[k].Mode = k.Access
    /\ \A v \in ViewSlots :
          (ViewUsable(v) /\ views[v].cls = "ImgView") =>
              (views[v].Key \in stats[views[v].Owner].imgReq
               /\ views[v].GlPtr = textures[views[v].Owner].imgHandles[views[v].Key].ViewGlPtr)

\* C9: when a Texture is destroyed, every make-non-resident call for its
\* still-active handles is issued before the storage object is deleted.
C9_DeactivatedBeforeStorageDeleted ==
    last.op = "~Texture" =>
        \A i, j \in DOMAIN calls :
            (calls[i][1] = "glDeleteTextures" /\ calls[j][1] \in NonResidentCalls) => j < i

\* C10: every storage object the driver created is either owned by exactly
\* one live Texture object and not deleted, or owned by none and deleted
\* exactly once; a Texture destructor never deletes the null name (a
\* moved-from Texture issues no delete call).
C10_StorageDeletedOnce ==
    /\ \A id \in DOMAIN gl.texDeletes :
          gl.texDeletes[id] + Cardinality({t \in TexObjs : Live(t) /\ textures[t].glPtr = id}) = 1
    /\ \A i \in DOMAIN calls : calls[i][1] = "glDeleteTextures" => calls[i][2] # Name(Null)
    /\ CountCalls(calls, {"glDeleteTextures"}) <= 1

\* C10's case: a Texture was moved into another object and both objects were
\* destroyed: the storage was deleted once.
C10_Witness ==
    \E t, u \in TexObjs :
        /\ t # u
        /\ textures[t].state = "destroyed" /\ textures[u].state = "destroyed"
        /\ DOMAIN gl.texDeletes = {1}
        /\ gl.texDeletes[1] = 1

\* C11: RecomputeMips() on a texture whose format is block-compressed fails
\* the assertion and issues no mipmap-generation call; on any other format
\* it issues exactly one glGenerateTextureMipmap call, for the texture's
\* storage, and nothing else.
C11_RecomputeMips ==
    \A t \in TexObjs :
        (last.op = "RecomputeMips" /\ last.a = t) =>
            IF textures[t].format.compressed
            THEN /\ failed = CompressedMipsMsg
                 /\ calls = <<>>
            ELSE /\ failed = NoError
                 /\ calls = <<<<"glGenerateTextureMipmap", Name(textures[t].glPtr)>>>>
                 /\ textures[t].glPtr # Null

\* C11's case: RecomputeMips() was called on a compressed texture.
C11_Witness ==
    \E t \in TexObjs :
        /\ last.op = "RecomputeMips" /\ last.a = t
        /\ textures[t].format.compressed
        /\ failed = CompressedMipsMsg

\* C12: GetView with a custom sampler that is not allowed for the texture's
\* format fails the assertion within that call: the texture's handle maps
\* (so every activation count) and the views are what they were, and no view
\* comes back.
C12_InvalidSamplerCaught ==
    [][\A t \in TexObjs, v \in ViewSlots, c \in Samplers :
          (/\ last'.op = "GetViewFull" /\ last'.a = t /\ last'.b = v /\ last'.key = c
           /\ ~FormatIsAllowed(c, textures[t].format)) =>
              /\ failed' = FormatNotAllowedMsg
              /\ textures' = textures
              /\ c \notin DOMAIN textures'[t].texHandles
              /\ views' = views
              /\ views'[v].state = "none"]_vars

\* C12's case: a texture with a live view was asked for a view with a sampler
\* its format does not allow.
C12_Witness ==
    \E t \in TexObjs, v \in ViewSlots :
        /\ last.op = "GetViewFull" /\ last.a = t
        /\ last.key \in Samplers /\ ~FormatIsAllowed(last.key, textures[t].format)
        /\ failed = FormatNotAllowedMsg
        /\ views[v].state = "live" /\ views[v].Owner = t
        /\ HandleOf(textures, views[v]).activeCount = 1

\* C13: a setter issues a driver call exactly when the new value differs from
\* the cached one (and then exactly one, for that value); so the second of
\* two calls of one setter in a row issues none if the value is the same and
\* one if it is different. SetStencilMask, which sets both faces, issues
\* its one call unless both cached masks already have the value.
C13_SettersElideRedundantCalls ==
    [][\A c \in ContextSlots :
          /\ (last'.op = "Set" /\ last'.a = c) =>
                 /\ calls' = IF contexts[c].cache[last'.b] = last'.key THEN <<>>
                             ELSE <<<<DriverCall(last'.b), last'.key>>>>
                 /\ (last.op = "Set" /\ last.a = c /\ last.b = last'.b) =>
                        Len(calls') = (IF last.key = last'.key THEN 0 ELSE 1)
                 /\ contexts'[c].cache[last'.b] = last'.key
          /\ (last'.op = "SetStencilMask" /\ last'.a = c) =>
                 /\ calls' = IF /\ contexts[c].cache.stencilMaskFront = last'.key
                                /\ contexts[c].cache.stencilMaskBack = last'.key
                             THEN <<>> ELSE <<<<"glStencilMask", last'.key>>>>
                 /\ contexts'[c].cache.stencilMaskFront = last'.key
                 /\ contexts'[c].cache.stencilMaskBack = last'.key]_vars

\* C13's case: on a new Context, SetDepthTest(X) was called twice in a row
\* with a value that was not cached: the second call issued nothing.
C13_Witness ==
    \E c \in ContextSlots :
        /\ ops = 3
        /\ last.op = "Set" /\ last.a = c /\ last.b = "currentDepthTest"
        /\ calls = <<>>
        /\ GetDepthTest(contexts[c]) = last.key
        /\ last.key # DriverDefaults.currentDepthTest
        /\ driver[contexts[c].thread].currentDepthTest = last.key

\* C14: as long as the thread's state was changed only through the Context
\* since the cache was last filled, every getter returns the value the
\* driver holds; a getter issues no driver call; and right after
\* RefreshDriverState() every cached value equals the driver's.
C14_CacheReflectsDriver ==
    \A c \in ContextSlots :
        ContextLive(c) =>
            LET th == contexts[c].thread
            IN /\ ~stale[th] => \A field \in CacheFields : Getter(field, contexts[c]) = driver[th][field]
               /\ (last.op = "Get" /\ last.a = c) =>
                      /\ calls = <<>>
                      /\ last.key = Getter(last.b, contexts[c])
                      /\ ~stale[th] => last.key = driver[th][last.b]
               /\ (last.op = "RefreshDriverState" /\ last.a = c) =>
                      \A field \in CacheFields : Getter(field, contexts[c]) = driver[th][field]

\* C14's case: the state was changed behind the Context's back and then
\* RefreshDriverState() brought the cache back to the driver's values.
C14_Witness ==
    \E c \in ContextSlots :
        /\ ops = 3
        /\ last.op = "RefreshDriverState" /\ last.a = c
        /\ last.b = TRUE
        /\ contexts[c].cache # DriverDefaults
        /\ contexts[c].cache = driver[contexts[c].thread]

\* C15: every thread has at most one live Context, and GetCurrentContext()
\* returns it, or null when the thread has none; constructing a Context on a
\* thread that has one fails the constructor's check, and on a thread that
\* has none (also after its instance was destroyed) it succeeds.
C15_OneContextPerThread ==
    [][/\ \A th \in Threads :
             LET liveOn == {c \in ContextSlots : contexts'[c].state = "live" /\ contexts'[c].thread = th}
             IN /\ Cardinality(liveOn) <= 1
                /\ IF liveOn = {} THEN GetCurrentContext(th)' = Null
                   ELSE GetCurrentContext(th)' \in liveOn
       /\ \A c \in ContextSlots, th \in Threads :
             (last'.op = "Context" /\ last'.a = c /\ last'.key = th) =>
                 IF \E d \in ContextSlots : contexts[d].state = "live" /\ contexts[d].thread = th
                 THEN failed' = ContextMsg /\ contexts' = contexts /\ current' = current
                 ELSE /\ failed' = NoError
                      /\ contexts'[c].state = "live" /\ contexts'[c].thread = th]_vars

\* C15's case: a thread's Context was destroyed and a new one constructed on
\* the same thread.
C15_Witness ==
    \E c, d \in ContextSlots :
        /\ contexts[c].state = "destroyed"
        /\ contexts[d].state = "live"
        /\ contexts[d].thread = contexts[c].thread
        /\ GetCurrentContext(contexts[d].thread) = d
        /\ failed = NoError

\* C16: once OnQuit has run, DidQuit() returns true, and a later Quit(force)
\* is a no-op that does not run OnQuit again.
C16_QuitStopsTheApp ==
    /\ app.onQuits >= 1 => DidQuit(app)
    /\ (last.op = "Quit" /\ last.b >= 1) => (calls = <<>> /\ app.onQuits = last.b)

\* C17: once a quit or window-close event has been handled by OnQuit, the
\* main loop exits: the app is no longer running when the loop tests
\* isRunning, and no frame is updated or rendered afterwards.
C17_RunReturnsAfterQuit ==
    app.quitHandled =>
        /\ ~app.frameAfterQuit
        /\ app.pc = "events" => ~app.isRunning

\* C18: a frame of the main loop calls OnPhysics at most
\* MaxPhysicsStepsPerFrame times, each time with PhysicsTimeStep.
C18_PhysicsStepsCapped ==
    last.op = "Frame" =>
        /\ CountCalls(calls, {"OnPhysics"}) <= MaxPhysicsStepsPerFrame
        /\ \A i \in DOMAIN calls : calls[i][1] = "OnPhysics" => calls[i][2] = PhysicsTimeStep

\* The calls of the last operation that have one of the names.
CallsNamed(names) == {calls[i] : i \in {j \in DOMAIN calls : calls[j][1] \in names}}

FailingStep(r) ==
    IF r.init # 0 THEN "SDL_Init"
    ELSE IF r.window = Null THEN "SDL_CreateWindow"
    ELSE IF r.attr # 0 THEN Attributes[r.attr]
    ELSE IF r.context = Null THEN "SDL_GL_CreateContext"
    ELSE IF r.vsync # 0 /\ r.vsyncOn # 0 THEN "SDL_GL_SetSwapInterval"
    ELSE IF r.glew # "GLEW_OK" THEN "glewInit"
    ELSE "none"

\* C20: if a setup step of Run() fails, the error callback is called, once,
\* with that step's message, Run() returns there, and neither OnBegin nor a
\* frame is ever executed; if none fails the callback is not called and
\* OnBegin is. Every TrySDL call returns true exactly when the code is 0
\* (the pointer non-null) and has called the error callback exactly when it
\* returns false.
C20_SetupCheckAndReport ==
    /\ ~app.began => (app.frames = 0 /\ app.pc # "events")
    /\ last.op = "Run" =>
          /\ IF FailingStep(last.key) # "none"
             THEN /\ CallsNamed({"OnError"}) = {<<"OnError", SetupMsg[FailingStep(last.key)]>>}
                  /\ CountCalls(calls, {"OnError"}) = 1
                  /\ app.pc = "returned"
                  /\ ~app.began
                  /\ CountCalls(calls, {"OnBegin"}) = 0
             ELSE /\ CountCalls(calls, {"OnError"}) = 0
                  /\ app.began
                  /\ CountCalls(calls, {"OnBegin"}) = 1
                  /\ app.pc = "events"
          /\ \A i \in DOMAIN calls :
                /\ calls[i][1] = "TrySDL" =>
                       /\ calls[i][2].ret = (calls[i][2].arg = 0)
                       /\ ~calls[i][2].ret <=> (i > 1 /\ calls[i - 1][1] = "OnError")
                /\ calls[i][1] = "TrySDL(void*)" =>
                       /\ calls[i][2].ret = (calls[i][2].arg # Null)
                       /\ ~calls[i][2].ret <=> (i > 2 /\ calls[i - 2][1] = "OnError")

\* C20's case: setting the depth bits fails after the window was created.
C20_Witness ==
    /\ last.op = "Run"
    /\ FailingStep(last.key) = "SDL_GL_DEPTH_SIZE"
    /\ app.pc = "returned"
    /\ app.MainWindow # Null
    /\ calls[Len(calls)] = <<"TrySDL", [arg |-> -1, ret |-> FALSE]>>
    /\ calls[Len(calls) - 1] = <<"OnError", SetupMsg.SDL_GL_DEPTH_SIZE>>

\* C21: a ConfigFile written with ToToml and read back with FromToml has its
\* base fields (IsWindowMaximized, LastWindowSize) and the data its subclass
\* serializes through _ToToml / _FromToml restored.
C21_ConfigRoundTrip ==
    configFile.pc = "read" =>
        /\ configFile.loaded.IsWindowMaximized = configFile.config.IsWindowMaximized
        /\ configFile.loaded.LastWindowSize = configFile.config.LastWindowSize
        /\ configFile.loaded.sub = configFile.config.sub

\* The live views (copies included) referring to the handle of class cls
\* that Texture object t keeps under key.
ViewsOf(t, cls, key) ==
    {v \in ViewSlots : /\ views[v].state = "live"
                        /\ views[v].Owner = t
                        /\ views[v].cls = cls
                        /\ views[v].Key = key}

MovedFrom(t) == Live(t) /\ textures[t].glPtr = Null

\* C23: one handle per (texture, sampler configuration) survives Texture
\* move-construction: a moved-from Texture is left owning no handle, and a
\* view requested on the destination, for a configuration the storage
\* already has a handle for, mints no second handle.
C23_OneHandleSurvivesMove ==
    /\ \A src \in TexObjs :
          MovedFrom(src) =>
              /\ textures[src].texHandles = EmptyMap
              /\ textures[src].imgHandles = EmptyMap
    /\ (last.op = "GetViewFull" /\ failed = NoError) =>
          LET tx == textures[last.a]
              sampler == ResolveSampler(tx, last.key)
          IN (\E src \in TexObjs :
                 /\ MovedFrom(src)
                 /\ sampler \in DOMAIN textures[src].texHandles
                 /\ textures[src].texHandles[sampler].ViewGlPtr.tex = tx.glPtr)
             => CountCalls(calls, TexMintCalls) = 0

\* C24: a handle for a custom sampler is minted from a sampler object that
\* is not null and was created and then configured (Sampler::Apply, after
\* the format was validated) earlier in the same construction.
C24_SamplerConfiguredBeforeMint ==
    \A i \in DOMAIN calls :
        calls[i][1] = "glGetTextureSamplerHandleARB" =>
            /\ calls[i][2].sampler # Null
            /\ \E j \in 1..(i - 1) :
                  /\ calls[j][1] = "Sampler::Apply"
                  /\ calls[j][2] = Name(calls[i][2].sampler)
                  /\ \E k \in 1..(j - 1) :
                        /\ calls[k][1] = "glCreateSamplers"
                        /\ calls[k][2] = Name(calls[i][2].sampler)

\* The steps of Run() that are handed the main window or the OpenGL context.
WindowUses ==
    {"SDL_GetWindowFlags", "SDL_GetWindowSize", "ImGui_ImplOpenGL3_NewFrame", "ImGui_ImplSDL2_NewFrame",
     "GL::SetViewport", "ImGui::Render", "SDL_GL_SwapWindow"}

\* C25: the main loop never uses the main window or the OpenGL context
\* after OnQuit destroyed them: no step of Run() is handed a null window or
\* context, OnEvent is not called after OnQuit in the round of an event,
\* and no frame is run after an event made the App quit.
C25_NoUseAfterOnQuit ==
    /\ \A i \in DOMAIN calls : calls[i][1] \in WindowUses => calls[i][2] # Null
    /\ \A i, j \in DOMAIN calls :
          (i < j /\ calls[i][1] = "Config->WriteToFile") => calls[j][1] # "OnEvent"
    /\ ~app.frameAfterQuit

\* C26: over any sequence of Quit / OnQuit calls (events, the error callback,
\* the destructor of App) the OpenGL context is deleted at most once and the
\* window is destroyed at most once.
C26_ReleasedAtMostOnce ==
    /\ app.contextDeletes <= 1
    /\ app.windowDestroys <= 1

\* The error callback made the App quit while it had its window and its
\* context, and the destructor of App ran OnQuit a second time.
C26_Witness ==
    /\ last.op = "~App"
    /\ last.b = 1
    /\ app.onQuits = 2
    /\ app.contextDeletes = 1
    /\ app.windowDestroys = 1

\* C27: every invocation of the error callback of the template application
\* returns: the chain OnError -> Quit(true) -> OnQuit -> WriteToFile ->
\* OnError is not re-entered without end.
C27_ErrorCallbackReturns == failed # RecursionMsg

=============================================================================
